---------------------------- MODULE Spec2Model ----------------------------
(***************************************************************************)
(* A model of the Azure DevOps work-item client (src/src/client.py), the   *)
(* Epic hierarchy exporter (src/epic_hierarchy_exporter.py) and the tool   *)
(* surface (src/server.py).  The remote service is the environment: every  *)
(* answer it can give to a request is drawn from a small set.              *)
(***************************************************************************)
EXTENDS Integers, Sequences, FiniteSets, TLC

VARIABLES
    \* ---- one call of AzureDevOpsClient.get_work_items -------------------
    ids,            \* the argument `ids`
    pc,             \* where the call stands
    batches,        \* the local `batches`
    tasks,          \* the state of each gathered _get_work_items_batch task
    batch_results,  \* the local `batch_results` (an exception is a value)
    work_items,     \* the value returned
    requests,       \* the id lists of the GET requests issued, in issue order
    resp_log,       \* per chunk: the answer the remote service gave
    completion,     \* the chunk indices in the order their requests completed
    \* ---- one call of EpicHierarchyExporter.get_epic_hierarchy ------------
    backend,        \* what the remote service holds: item types and links
    epic_id,        \* the argument `epic_id`
    walk,           \* the locals of the call and where it stands
    calls,          \* the remote requests issued by the call, in issue order
    disc_log,       \* per child-discovery step: what the service answered
    \* ---- one call of a tool of server.py --------------------------------
    settings,       \* the process-wide settings (config.settings)
    request,        \* the arguments of the call
    tool,           \* the locals of the call and where it stands
    http_log,       \* the remote requests issued by the call and their fate
    \* ---- one AzureDevOpsClient in one process ---------------------------
    _client,        \* the field `_client`: 0 is None, else a handle's index
    handles,        \* every httpx.AsyncClient created: "open" or "closed"
    conn_log,       \* the remote calls and close() calls, in order
    proc            \* the process: its entry point and where it stands

fetchVars == <<ids, pc, batches, tasks, batch_results, work_items, requests,
               resp_log, completion>>
walkVars == <<backend, epic_id, walk, calls, disc_log>>
toolVars == <<settings, request, tool, http_log>>
connVars == <<_client, handles, conn_log, proc>>

vars == <<fetchVars, walkVars, toolVars, connVars>>

-----------------------------------------------------------------------------
(* Bounds of the model.                                                    *)

\* get_work_items is called with lists of at most MaxChunks full chunks.
MaxChunks == 2

\* get_epic_hierarchy is called with the identifiers 1..MaxEpicId.
MaxEpicId == 7

\* a process makes at most MaxRequests remote calls on its client and calls
\* close() at most MaxCloses times.
MaxRequests == 3
MaxCloses == 1

(* Program constants.                                                      *)

\* self.max_batch_size
max_batch_size == 200

\* the default of settings.default_max_results
default_max_results == 100

-----------------------------------------------------------------------------
(* Python values.                                                          *)

None == "<None>"

\* dict.get(key, default)
Get(obj, key, default) == IF key \in DOMAIN obj THEN obj[key] ELSE default

\* bool(obj.get(key)) for an attribute that holds an object: a JSON null is
\* modelled as an absent key
Has(obj, key) == key \in DOMAIN obj

Min(a, b) == IF a <= b THEN a ELSE b

RECURSIVE Flatten(_)
Flatten(ss) == IF ss = <<>> THEN <<>> ELSE Head(ss) \o Flatten(Tail(ss))

Reverse(s) == [i \in 1..Len(s) |-> s[Len(s) + 1 - i]]

\* range(start, stop, step) as a list
RECURSIVE RangeStep(_, _, _)
RangeStep(start, stop, step) ==
    IF start >= stop THEN <<>>
    ELSE <<start>> \o RangeStep(start + step, stop, step)

\* s[i : j] of a list (0-based, end exclusive, clipped to the list)
Slice(s, i, j) == SubSeq(s, i + 1, Min(j, Len(s)))

\* the outcome of a call: a value returned, or an exception raised
Return(v) == [raised |-> FALSE, value |-> v]
Raise == [raised |-> TRUE, value |-> <<>>]

-----------------------------------------------------------------------------
(* The remote service's answers.  `sent` is FALSE when the transport fails *)
(* and client.get / client.post itself raises; `json` is FALSE when the    *)
(* body is not JSON and response.json() raises.                            *)

HttpResponse(status, data) ==
    [sent |-> TRUE, status |-> status, json |-> TRUE, data |-> data]
TransportError == [sent |-> FALSE, status |-> 0, json |-> FALSE, data |-> <<>>]
NotJson(status) ==
    [sent |-> TRUE, status |-> status, json |-> FALSE, data |-> <<>>]
ErrorBody == [message |-> "error"]

Is2xx(status) == status \in 200..299

\* the record the items endpoint holds for an identifier
ItemJson(i, type) ==
    [id |-> i,
     fields |-> ("System.Title" :> "title" @@ "System.WorkItemType" :> type
                 @@ "System.State" :> "Active")]

\* the ids of the items of an answer, in the answer's order
RespIds(resp) ==
    IF resp.sent /\ resp.json
    THEN LET v == Get(resp.data, "value", <<>>) IN [k \in 1..Len(v) |-> v[k].id]
    ELSE <<>>

\* the answers the items endpoint can give to a request for `req`
ItemResponses(req, typeOf) ==
    LET body(order) == [value |-> [k \in 1..Len(order) |->
                                      ItemJson(order[k], typeOf[order[k]])]]
    IN { HttpResponse(200, body(req)),
         HttpResponse(200, body(Reverse(req))),
         HttpResponse(404, ErrorBody),
         NotJson(500),
         TransportError }

-----------------------------------------------------------------------------
(* AzureDevOpsClient                                                       *)

\* _make_request: the HTTPStatusError of raise_for_status is printed and
\* dropped, then response.json() is returned
_make_request(resp) ==
    IF ~resp.sent THEN Raise
    ELSE IF ~resp.json THEN Raise
    ELSE Return(resp.data)

\* the WorkItem built from one record of the answer
WorkItemOf(item) ==
    LET fields == Get(item, "fields", <<>>)
    IN [id |-> item.id,
        title |-> Get(fields, "System.Title", ""),
        work_item_type |-> Get(fields, "System.WorkItemType", ""),
        state |-> Get(fields, "System.State", ""),
        assigned_to |-> IF Has(fields, "System.AssignedTo")
                        THEN Get(fields["System.AssignedTo"], "displayName",
                                 None)
                        ELSE None,
        created_date |-> Get(fields, "System.CreatedDate", ""),
        changed_date |-> Get(fields, "System.ChangedDate", ""),
        description |-> Get(fields, "System.Description", ""),
        tags |-> Get(fields, "System.Tags", "")]

\* a mapping that fails the batch on a record without its fields map
_get_work_items_batch_strict(resp) ==
    LET r == _make_request(resp) IN
    IF r.raised THEN Raise
    ELSE LET value == Get(r.value, "value", <<>>) IN
         IF \E k \in 1..Len(value) :
               "id" \notin DOMAIN value[k] \/ "fields" \notin DOMAIN value[k]
         THEN Raise
         ELSE Return([k \in 1..Len(value) |-> WorkItemOf(value[k])])

\* _get_work_items_batch, given the answer to its request
_get_work_items_batch(resp) ==
    LET r == _make_request(resp) IN
    IF r.raised THEN Raise
    ELSE LET value == Get(r.value, "value", <<>>) IN
         IF \E k \in 1..Len(value) : "id" \notin DOMAIN value[k] THEN Raise
         ELSE Return([k \in 1..Len(value) |-> WorkItemOf(value[k])])

\* a split whose slices are one element too long
BatchesOverlap(l) ==
    LET starts == RangeStep(0, Len(l), max_batch_size)
    IN [k \in 1..Len(starts) |->
           Slice(l, starts[k], starts[k] + max_batch_size + 1)]

\* the list comprehension that splits `ids` into batches
Batches(l) ==
    LET starts == RangeStep(0, Len(l), max_batch_size)
    IN [k \in 1..Len(starts) |-> Slice(l, starts[k], starts[k] + max_batch_size)]

\* a combining loop that gives up at the first exception
RECURSIVE CombineUntilError(_)
CombineUntilError(results) ==
    IF results = <<>> THEN <<>>
    ELSE IF Head(results).raised THEN <<>>
    ELSE Head(results).value \o CombineUntilError(Tail(results))

\* the loop that combines batch_results, skipping the exceptions
RECURSIVE Combine(_)
Combine(results) ==
    IF results = <<>> THEN <<>>
    ELSE IF Head(results).raised THEN Combine(Tail(results))
    ELSE Head(results).value \o Combine(Tail(results))

\* get_work_items as its callers see it: `resps` holds the answer to the
\* request of each batch
get_work_items(l, resps) ==
    IF l = <<>> THEN Return(<<>>)
    ELSE IF Len(l) <= max_batch_size THEN _get_work_items_batch(resps[1])
    ELSE Return(Combine([k \in 1..Len(Batches(l)) |->
                            _get_work_items_batch(resps[k])]))

\* execute_wiql: the HTTPStatusError of raise_for_status is raised again
execute_wiql(resp) ==
    IF ~resp.sent THEN Raise
    ELSE IF ~Is2xx(resp.status) THEN Raise
    ELSE IF ~resp.json THEN Raise
    ELSE Return(resp.data)

-----------------------------------------------------------------------------
(* One call of get_work_items, a step per suspension point.                *)

\* the type tag of the items of this call
FetchType == [i \in 1..(MaxChunks * max_batch_size) |-> "Task"]

\* the argument lists tried: distinct ids, not sorted, of every length around
\* a multiple of the batch size
IdCounts ==
    {n \in 0..(MaxChunks * max_batch_size) :
        n % max_batch_size \in {0, 1, max_batch_size - 1}}
IdList(n) == [i \in 1..n |-> n + 1 - i]

\* no get_epic_hierarchy call is under way
WalkIdle ==
    /\ backend = <<>>
    /\ epic_id = 0
    /\ walk = <<>>
    /\ calls = <<>>
    /\ disc_log = <<>>

\* no client is in use
ConnIdle ==
    /\ _client = 0
    /\ handles = <<>>
    /\ conn_log = <<>>
    /\ proc = <<>>

\* no tool call is under way
ToolIdle ==
    /\ settings = <<>>
    /\ request = <<>>
    /\ tool = <<>>
    /\ http_log = <<>>

FetchInit ==
    /\ WalkIdle
    /\ ToolIdle
    /\ ConnIdle
    /\ ids \in {IdList(n) : n \in IdCounts}
    /\ pc = "start"
    /\ batches = <<>>
    /\ tasks = <<>>
    /\ batch_results = <<>>
    /\ work_items = <<>>
    /\ requests = <<>>
    /\ resp_log = <<>>
    /\ completion = <<>>

\* if not ids: return []
FetchEmpty ==
    /\ pc = "start"
    /\ ids = <<>>
    /\ pc' = "returned"
    /\ work_items' = <<>>
    /\ UNCHANGED <<walkVars, toolVars, connVars>>
    /\ UNCHANGED <<ids, batches, tasks, batch_results, requests, resp_log,
                   completion>>

\* len(ids) <= max_batch_size: the single request is issued
FetchSingleSend ==
    /\ pc = "start"
    /\ ids /= <<>>
    /\ Len(ids) <= max_batch_size
    /\ requests' = Append(requests, ids)
    /\ pc' = "await_single"
    /\ UNCHANGED <<walkVars, toolVars, connVars>>
    /\ UNCHANGED <<ids, batches, tasks, batch_results, work_items, resp_log,
                   completion>>

\* a single request whose failure is swallowed like a chunk's
FetchSingleDoneIsolated ==
    /\ pc = "await_single"
    /\ \E resp \in ItemResponses(ids, FetchType) :
          LET r == _get_work_items_batch(resp) IN
          /\ pc' = "returned"
          /\ work_items' = r.value
          /\ resp_log' = <<[status |-> resp.status, raised |-> r.raised,
                            order |-> RespIds(resp)]>>
    /\ completion' = <<1>>
    /\ UNCHANGED <<walkVars, toolVars, connVars>>
    /\ UNCHANGED <<ids, batches, tasks, batch_results, requests>>

\* return await self._get_work_items_batch(ids, project)
FetchSingleDone ==
    /\ pc = "await_single"
    /\ \E resp \in ItemResponses(ids, FetchType) :
          LET r == _get_work_items_batch(resp) IN
          /\ pc' = IF r.raised THEN "raised" ELSE "returned"
          /\ work_items' = r.value
          /\ resp_log' = <<[status |-> resp.status, raised |-> r.raised,
                            order |-> RespIds(resp)]>>
    /\ completion' = <<1>>
    /\ UNCHANGED <<walkVars, toolVars, connVars>>
    /\ UNCHANGED <<ids, batches, tasks, batch_results, requests>>

\* the batches are built and one task per batch is handed to gather
FetchSplit ==
    /\ pc = "start"
    /\ Len(ids) > max_batch_size
    /\ batches' = Batches(ids)
    /\ tasks' = [k \in 1..Len(Batches(ids)) |-> "created"]
    /\ batch_results' = [k \in 1..Len(Batches(ids)) |-> Raise]
    /\ resp_log' = [k \in 1..Len(Batches(ids)) |->
                       [status |-> 0, raised |-> FALSE, order |-> <<>>]]
    /\ pc' = "gather"
    /\ UNCHANGED <<walkVars, toolVars, connVars>>
    /\ UNCHANGED <<ids, work_items, requests, completion>>

\* task k runs to its first suspension and issues its request; the event
\* loop starts the tasks in the order gather received them
TaskSend(k) ==
    /\ pc = "gather"
    /\ tasks[k] = "created"
    /\ \A j \in 1..(k - 1) : tasks[j] /= "created"
    /\ requests' = Append(requests, batches[k])
    /\ tasks' = [tasks EXCEPT ![k] = "inflight"]
    /\ UNCHANGED <<walkVars, toolVars, connVars>>
    /\ UNCHANGED <<ids, pc, batches, batch_results, work_items, resp_log,
                   completion>>

\* the request of task k is answered and the task ends, with a list or with
\* an exception that gather(return_exceptions=True) keeps as the result
TaskDone(k) ==
    /\ pc = "gather"
    /\ tasks[k] = "inflight"
    /\ \E resp \in ItemResponses(batches[k], FetchType) :
          LET r == _get_work_items_batch(resp) IN
          /\ batch_results' = [batch_results EXCEPT ![k] = r]
          /\ resp_log' = [resp_log EXCEPT ![k] =
                             [status |-> resp.status, raised |-> r.raised,
                              order |-> RespIds(resp)]]
    /\ tasks' = [tasks EXCEPT ![k] = "done"]
    /\ completion' = Append(completion, k)
    /\ UNCHANGED <<walkVars, toolVars, connVars>>
    /\ UNCHANGED <<ids, pc, batches, work_items, requests>>

\* a merge that takes the results as the tasks completed
FetchMergeAsCompleted ==
    /\ pc = "gather"
    /\ \A k \in 1..Len(tasks) : tasks[k] = "done"
    /\ work_items' = Combine([j \in 1..Len(completion) |->
                                 batch_results[completion[j]]])
    /\ pc' = "returned"
    /\ UNCHANGED <<walkVars, toolVars, connVars>>
    /\ UNCHANGED <<ids, batches, tasks, batch_results, requests, resp_log,
                   completion>>

\* gather returns once every task has ended; the results are combined
FetchMerge ==
    /\ pc = "gather"
    /\ \A k \in 1..Len(tasks) : tasks[k] = "done"
    /\ work_items' = Combine(batch_results)
    /\ pc' = "returned"
    /\ UNCHANGED <<walkVars, toolVars, connVars>>
    /\ UNCHANGED <<ids, batches, tasks, batch_results, requests, resp_log,
                   completion>>

FetchSend == \E k \in 1..Len(tasks) : TaskSend(k)
FetchDone == \E k \in 1..Len(tasks) : TaskDone(k)

FetchNext ==
    \/ FetchEmpty
    \/ FetchSingleSend
    \/ FetchSingleDone
    \/ FetchSplit
    \/ FetchSend
    \/ FetchDone
    \/ FetchMerge

SpecFetch == FetchInit /\ [][FetchNext]_vars

-----------------------------------------------------------------------------
(* Properties of get_work_items, checked under SpecFetch.                  *)

FetchEnded == pc \in {"returned", "raised"}
MultiChunk == Len(ids) > max_batch_size
SomeRequestRaised == \E k \in 1..Len(resp_log) : resp_log[k].raised
ItemIds(items) == [j \in 1..Len(items) |-> items[j].id]
Range(s) == {s[j] : j \in 1..Len(s)}

\* C1: a call with more than 200 ids never raises, whichever chunk requests
\* raise, and returns the concatenation, in chunk order, of the item lists of
\* the chunks whose request succeeded.
C1_PartialResult ==
    MultiChunk =>
        /\ pc /= "raised"
        /\ pc = "returned" =>
              work_items = Flatten([k \in 1..Len(batch_results) |->
                                       IF resp_log[k].raised THEN <<>>
                                       ELSE batch_results[k].value])

\* 201 ids, the second request fails: the 200 items of the first chunk
C1_Witness ==
    /\ pc = "returned"
    /\ Len(ids) = max_batch_size + 1
    /\ ~resp_log[1].raised
    /\ resp_log[2].raised
    /\ Len(work_items) = max_batch_size

\* C2 as claimed: also a call of at most 200 ids, which issues one request,
\* returns an empty list instead of raising when that request raises.
C2_IsolationEveryCall ==
    (FetchEnded /\ ~MultiChunk /\ SomeRequestRaised) =>
        (pc = "returned" /\ work_items = <<>>)

\* C2 amended: get_work_items raises exactly when it issued a single request
\* (at most 200 ids) and that request raised; only the calls with more than
\* 200 ids isolate the failure of a request.
C2_SingleRequestPropagates ==
    FetchEnded =>
        (pc = "raised" <=> (~MultiChunk /\ SomeRequestRaised))

\* a single request raised and so did the call
C2_Witness ==
    /\ pc = "raised"
    /\ Len(ids) = max_batch_size
    /\ Len(requests) = 1
    /\ resp_log[1].raised

\* C3: the requests issued are, in order, the contiguous chunks of 200 ids
\* (the last one possibly smaller), never one twice, and when the call ends
\* there are exactly ceil(n / 200) of them, whether or not any failed.
C3_RequestCount ==
    LET n == Len(ids)
        count == (n + max_batch_size - 1) \div max_batch_size
    IN /\ Len(requests) <= count
       /\ \A k \in 1..Len(requests) :
             requests[k] = SubSeq(ids, (k - 1) * max_batch_size + 1,
                                  Min(k * max_batch_size, n))
       /\ FetchEnded => Len(requests) = count
       /\ (FetchEnded /\ n = 0) => (pc = "returned" /\ work_items = <<>>)

\* 201 ids: two requests, of 200 and of 1, one of them failing
C3_Witness ==
    /\ FetchEnded
    /\ Len(ids) = max_batch_size + 1
    /\ Len(requests) = 2
    /\ Len(requests[1]) = max_batch_size
    /\ Len(requests[2]) = 1
    /\ SomeRequestRaised

\* C4: in the merged result an item of an earlier chunk comes before every
\* item of a later chunk, and the items of one chunk are in the order of that
\* chunk's answer, in whatever order the requests completed.
C4_ChunkOrder ==
    (pc = "returned" /\ MultiChunk) =>
        LET got == ItemIds(work_items)
            members == [k \in 1..Len(batches) |-> Range(batches[k])]
            chunkOf(i) == CHOOSE k \in 1..Len(batches) : i \in members[k]
            chunks == [p \in 1..Len(got) |-> chunkOf(got[p])]
        IN /\ \A p \in 1..(Len(got) - 1) : chunks[p] <= chunks[p + 1]
           /\ \A k \in 1..Len(batches) :
                 LET inChunk(i) == i \in members[k]
                 IN SelectSeq(got, inChunk) = resp_log[k].order

\* the second chunk completed first, and the first chunk's answer is not in
\* request order
C4_Witness ==
    /\ pc = "returned"
    /\ Len(ids) = 2 * max_batch_size
    /\ completion = <<2, 1>>
    /\ resp_log[1].order = Reverse(batches[1])
    /\ resp_log[2].order = batches[2]
    /\ Len(work_items) = 2 * max_batch_size

-----------------------------------------------------------------------------
(* The remote service behind get_epic_hierarchy: the type tag of each item *)
(* and the ordered forward-hierarchy links of each parent.  With self_rows *)
(* the answer to a link query starts, as the service's one-hop queries do, *)
(* with a row for the source itself, which has no rel and no source.       *)

ForwardLink == "System.LinkTypes.Hierarchy-Forward"

\* Epic 1 -> Feature 2 -> User Story 3 -> Task 4, Bug 5; Epic 6 has no child
RoundTripTypes ==
    <<"Epic", "Feature", "User Story", "Task", "Bug", "Epic">>
RoundTripLinks ==
    <<(<<2>>), (<<3>>), (<<4, 5>>), (<<>>), (<<>>), (<<>>)>>

\* Epic 1 -> Features 3, 2 (in that order), both holding User Story 4, which
\* holds Task 5; Epic 6 holds only a Task
SharedTypes ==
    <<"Epic", "Feature", "Feature", "User Story", "Task", "Epic">>
SharedLinks ==
    <<(<<3, 2>>), (<<4>>), (<<4>>), (<<5>>), (<<>>), (<<5>>)>>

Backends ==
    { [types |-> RoundTripTypes, links |-> RoundTripLinks, self_rows |-> sr]
        : sr \in BOOLEAN }
    \cup
    { [types |-> SharedTypes, links |-> SharedLinks, self_rows |-> sr]
        : sr \in BOOLEAN }

SelfRow(parent) == [target |-> [id |-> parent]]
LinkRow(parent, child) ==
    [rel |-> ForwardLink, source |-> [id |-> parent], target |-> [id |-> child]]

\* the linked children of `parent` whose type tag is `type`, in link order
LinkedChildren(b, parent, type) ==
    IF parent \notin DOMAIN b.links THEN <<>>
    ELSE LET ofType(c) == b.types[c] = type
         IN SelectSeq(b.links[parent], ofType)

\* the rows the service answers to the link query of _get_children_by_type
TrueRows(b, parent, type) ==
    LET kids == LinkedChildren(b, parent, type) IN
    IF kids = <<>> THEN <<>>
    ELSE (IF b.self_rows THEN <<SelfRow(parent)>> ELSE <<>>)
         \o [k \in 1..Len(kids) |-> LinkRow(parent, kids[k])]

\* the answers the query endpoint can give to that link query
WiqlResponses(b, parent, type) ==
    { HttpResponse(200, [workItemRelations |-> TrueRows(b, parent, type)]),
      HttpResponse(200, [workItemRelations |->
          TrueRows(b, parent, type)
              \o <<[rel |-> ForwardLink, source |-> [id |-> parent]]>>]),
      HttpResponse(200, [workItems |-> <<>>]),
      HttpResponse(404, ErrorBody),
      NotJson(200),
      TransportError }

\* the target ids of the rows of an answer, in row order
RowTargets(resp) ==
    IF resp.sent /\ resp.json
    THEN LET rows == Get(resp.data, "workItemRelations", <<>>)
             hasTarget(r) == "target" \in DOMAIN r
             kept == SelectSeq(rows, hasTarget)
         IN [k \in 1..Len(kept) |-> kept[k].target.id]
    ELSE <<>>

\* the answers the items endpoint can give when it holds `b`: ids it does
\* not hold are left out
StoredItemResponses(b, req) ==
    LET held(i) == i \in DOMAIN b.types
    IN ItemResponses(SelectSeq(req, held), b.types)

-----------------------------------------------------------------------------
(* EpicHierarchyExporter                                                   *)

\* the same collection, sorted by identifier
RECURSIVE TargetIdsSorted(_)
TargetIdsSorted(relations) ==
    LET hasId(r) == Has(r, "target") /\ Get(r.target, "id", 0) /= 0
        found == {relations[k].target.id :
                     k \in {j \in 1..Len(relations) : hasId(relations[j])}}
        least == CHOOSE i \in found : \A j \in found : i <= j
        notLeast(r) == ~hasId(r) \/ r.target.id /= least
    IN IF found = {} THEN <<>>
       ELSE <<least>> \o TargetIdsSorted(SelectSeq(relations, notLeast))

\* the loop that collects the target ids of the relations
RECURSIVE TargetIdsOf(_)
TargetIdsOf(relations) ==
    IF relations = <<>> THEN <<>>
    ELSE LET relation == Head(relations)
         IN (IF Has(relation, "target") /\ Get(relation.target, "id", 0) /= 0
             THEN <<relation.target.id>> ELSE <<>>)
            \o TargetIdsOf(Tail(relations))

\* a check of the root that leaves its type tag unchecked
RootCheckAnyType(epic_items) ==
    IF epic_items = <<>> THEN "NotFound" ELSE "ok"

\* the checks of the root: "ok", or the ValueError raised
RootCheck(epic_items) ==
    IF epic_items = <<>> THEN "NotFound"
    ELSE IF epic_items[1].work_item_type /= "Epic" THEN "TypeMismatch"
    ELSE "ok"

\* an except clause that raises the error again
OnDiscoveryErrorRaise == [propagate |-> TRUE, children |-> <<>>]

\* the except clause of _get_children_by_type: the error is printed and an
\* empty list returned
OnDiscoveryError == [propagate |-> FALSE, children |-> <<>>]

\* the locals of get_epic_hierarchy before its first statement
WalkStart ==
    [pc |-> "root", error |-> "none", epic_items |-> <<>>, epic |-> <<>>,
     parent |-> 0, type |-> "", target_ids |-> <<>>,
     features |-> <<>>, feature_hierarchy |-> <<>>, fi |-> 0,
     user_stories |-> <<>>, user_story_hierarchy |-> <<>>, si |-> 0,
     tasks |-> <<>>, hierarchy |-> <<>>]

\* a loop that looks up the User Stories of the first feature only
NextFeatureFirstOnly(w) ==
    IF w.fi <= Len(w.features) /\ w.fi <= 1
    THEN [w EXCEPT !.parent = w.features[w.fi].id, !.type = "User Story",
                   !.pc = "query"]
    ELSE [w EXCEPT !.hierarchy = [epic |-> w.epic,
                                  features |-> w.feature_hierarchy],
                   !.pc = "done"]

\* the head of `for feature in features`: the next feature's User Stories
\* are looked up, or the hierarchy is returned
NextFeature(w) ==
    IF w.fi <= Len(w.features)
    THEN [w EXCEPT !.parent = w.features[w.fi].id, !.type = "User Story",
                   !.pc = "query"]
    ELSE [w EXCEPT !.hierarchy = [epic |-> w.epic,
                                  features |-> w.feature_hierarchy],
                   !.pc = "done"]

\* a loop body that starts with the Bug lookup
NextStoryBugFirst(w) ==
    IF w.si <= Len(w.user_stories)
    THEN [w EXCEPT !.parent = w.user_stories[w.si].id, !.type = "Bug",
                   !.pc = "query"]
    ELSE NextFeature(
           [w EXCEPT !.feature_hierarchy =
                         Append(@, [work_item |-> w.features[w.fi],
                                    user_stories |-> w.user_story_hierarchy]),
                     !.fi = @ + 1])

\* the head of `for user_story in user_stories`: the next story's Tasks are
\* looked up, or the feature's node is appended
NextStory(w) ==
    IF w.si <= Len(w.user_stories)
    THEN [w EXCEPT !.parent = w.user_stories[w.si].id, !.type = "Task",
                   !.pc = "query"]
    ELSE NextFeature(
           [w EXCEPT !.feature_hierarchy =
                         Append(@, [work_item |-> w.features[w.fi],
                                    user_stories |-> w.user_story_hierarchy]),
                     !.fi = @ + 1])

\* _get_children_by_type returned `children`: the assignment that awaited
\* it, and the statements up to the next await
Deliver(w, children) ==
    CASE w.type = "Feature" ->
           NextFeature([w EXCEPT !.features = children,
                                 !.feature_hierarchy = <<>>, !.fi = 1])
      [] w.type = "User Story" ->
           NextStory([w EXCEPT !.user_stories = children,
                               !.user_story_hierarchy = <<>>, !.si = 1])
      [] w.type = "Task" ->
           [w EXCEPT !.tasks = children, !.type = "Bug", !.pc = "query"]
      [] w.type = "Bug" ->
           NextStory(
             [w EXCEPT !.user_story_hierarchy =
                           Append(@, [work_item |-> w.user_stories[w.si],
                                      tasks |-> w.tasks,
                                      bugs |-> children]),
                       !.si = @ + 1])

\* where in the tree the children being looked up belong: <<>> under the
\* Epic, <<i>> under feature i, <<i, j>> under story j of feature i
WalkPath(w) ==
    CASE w.type = "Feature" -> <<>>
      [] w.type = "User Story" -> <<w.fi>>
      [] OTHER -> <<w.fi, w.si>>

WalkInit ==
    /\ pc = "idle"
    /\ ids = <<>>
    /\ batches = <<>>
    /\ tasks = <<>>
    /\ batch_results = <<>>
    /\ work_items = <<>>
    /\ requests = <<>>
    /\ resp_log = <<>>
    /\ completion = <<>>
    /\ ToolIdle
    /\ ConnIdle
    /\ backend \in Backends
    /\ epic_id \in 1..MaxEpicId
    /\ walk = WalkStart
    /\ calls = <<>>
    /\ disc_log = <<>>

\* Step 1: the root is fetched and checked; then the Features are looked up
WalkRoot ==
    /\ walk.pc = "root"
    /\ \E resp \in StoredItemResponses(backend, <<epic_id>>) :
          LET r == get_work_items(<<epic_id>>, <<resp>>)
              check == RootCheck(r.value)
          IN
          /\ walk' =
               IF r.raised THEN [walk EXCEPT !.pc = "failed", !.error = "Error"]
               ELSE IF check /= "ok"
               THEN [walk EXCEPT !.pc = "failed", !.error = check,
                                 !.epic_items = r.value]
               ELSE [walk EXCEPT !.epic_items = r.value, !.epic = r.value[1],
                                 !.parent = epic_id, !.type = "Feature",
                                 !.pc = "query"]
          /\ calls' = Append(calls, [op |-> "items", ids |-> <<epic_id>>,
                                     parent |-> 0, type |-> "root",
                                     raised |-> r.raised,
                                     answer |-> RespIds(resp)])
    /\ UNCHANGED <<backend, epic_id, disc_log>>
    /\ UNCHANGED <<fetchVars, toolVars, connVars>>

\* _get_children_by_type up to its second await: the link query is executed
\* and the target ids are collected
WalkQuery ==
    /\ walk.pc = "query"
    /\ \E resp \in WiqlResponses(backend, walk.parent, walk.type) :
          LET data == execute_wiql(resp)
              work_item_relations ==
                  IF data.raised THEN <<>>
                  ELSE Get(data.value, "workItemRelations", <<>>)
              target_ids == TargetIdsOf(work_item_relations)
              entry == [path |-> WalkPath(walk), type |-> walk.type,
                        parent |-> walk.parent, failed |-> data.raised,
                        row_targets |-> RowTargets(resp),
                        requested |-> <<>>, answer_ids |-> <<>>]
          IN
          /\ walk' =
               IF data.raised /\ OnDiscoveryError.propagate
               THEN [walk EXCEPT !.pc = "failed", !.error = "Error"]
               ELSE IF data.raised
               THEN Deliver(walk, OnDiscoveryError.children)
               ELSE IF target_ids = <<>>
               THEN Deliver(walk, <<>>)
               ELSE [walk EXCEPT !.target_ids = target_ids, !.pc = "resolve"]
          /\ disc_log' = Append(disc_log, entry)
          /\ calls' = Append(calls, [op |-> "wiql", ids |-> <<>>,
                                     parent |-> walk.parent,
                                     type |-> walk.type,
                                     raised |-> data.raised,
                                     answer |-> RowTargets(resp)])
    /\ UNCHANGED <<backend, epic_id>>
    /\ UNCHANGED <<fetchVars, toolVars, connVars>>

\* _get_children_by_type from its second await: the target ids are resolved
\* into work items, which are returned
WalkResolve ==
    /\ walk.pc = "resolve"
    /\ \E resp \in StoredItemResponses(backend, walk.target_ids) :
          LET r == get_work_items(walk.target_ids, <<resp>>)
              n == Len(disc_log)
              entry == [disc_log[n] EXCEPT !.failed = r.raised,
                                           !.requested = walk.target_ids,
                                           !.answer_ids = RespIds(resp)]
          IN /\ walk' =
                  IF r.raised /\ OnDiscoveryError.propagate
                  THEN [walk EXCEPT !.pc = "failed", !.error = "Error"]
                  ELSE IF r.raised
                  THEN Deliver([walk EXCEPT !.target_ids = <<>>],
                               OnDiscoveryError.children)
                  ELSE Deliver([walk EXCEPT !.target_ids = <<>>], r.value)
             /\ disc_log' = [disc_log EXCEPT ![n] = entry]
             /\ calls' = Append(calls, [op |-> "items",
                                        ids |-> walk.target_ids,
                                        parent |-> walk.parent,
                                        type |-> walk.type,
                                        raised |-> r.raised,
                                        answer |-> RespIds(resp)])
    /\ UNCHANGED <<backend, epic_id>>
    /\ UNCHANGED <<fetchVars, toolVars, connVars>>

WalkNext ==
    \/ WalkRoot
    \/ WalkQuery
    \/ WalkResolve

SpecWalk == WalkInit /\ [][WalkNext]_vars

-----------------------------------------------------------------------------
(* Properties of get_epic_hierarchy, checked under SpecWalk.               *)

\* the ids of the children the tree holds at `path` for type `type`
NodeChildren(h, path, type) ==
    IF path = <<>>
    THEN [j \in 1..Len(h.features) |-> h.features[j].work_item.id]
    ELSE IF Len(path) = 1
    THEN LET us == h.features[path[1]].user_stories
         IN [k \in 1..Len(us) |-> us[k].work_item.id]
    ELSE LET st == h.features[path[1]].user_stories[path[2]]
         IN ItemIds(IF type = "Task" THEN st.tasks ELSE st.bugs)

WiqlCalls == SelectSeq(calls, LAMBDA c : c.op = "wiql")
RootAnswered == calls /= <<>> /\ ~calls[1].raised
AbortedAtRoot ==
    /\ walk.pc = "failed"
    /\ walk.hierarchy = <<>>
    /\ Len(calls) = 1
    /\ WiqlCalls = <<>>

\* C6: when the root lookup returns no item the walk fails with NotFound,
\* when the first item returned is not of type "Epic" it fails with
\* TypeMismatch; in both cases no child-discovery query has been issued and no
\* tree is returned.
C6_RootValidated ==
    RootAnswered =>
        /\ calls[1].answer = <<>> =>
              (walk.error = "NotFound" /\ AbortedAtRoot)
        /\ (calls[1].answer /= <<>>
              /\ backend.types[calls[1].answer[1]] /= "Epic") =>
              (walk.error = "TypeMismatch" /\ AbortedAtRoot)

\* the root is item 5, a Bug
C6_Witness ==
    /\ epic_id = 5
    /\ RootAnswered
    /\ calls[1].answer = <<5>>
    /\ backend.types[5] = "Bug"
    /\ walk.error = "TypeMismatch"

\* C7: a child-discovery step that fails (its query or its item resolution
\* raises) never fails the walk: its parent gets no child of that type, every
\* later sibling and level is still looked up, and the tree is returned.
C7_FailureContained ==
    /\ walk.pc = "failed" => Len(calls) = 1
    /\ walk.pc \in {"query", "resolve"} => ENABLED WalkNext
    /\ walk.pc = "done" =>
          LET h == walk.hierarchy
              looked(path, type) ==
                  \E n \in 1..Len(disc_log) :
                      disc_log[n].path = path /\ disc_log[n].type = type
          IN /\ \A n \in 1..Len(disc_log) :
                   disc_log[n].failed =>
                       NodeChildren(h, disc_log[n].path, disc_log[n].type)
                           = <<>>
             /\ looked(<<>>, "Feature")
             /\ \A i \in 1..Len(h.features) :
                   /\ looked(<<i>>, "User Story")
                   /\ \A j \in 1..Len(h.features[i].user_stories) :
                         looked(<<i, j>>, "Task") /\ looked(<<i, j>>, "Bug")

\* the lookup of the first feature's User Stories failed; the second
\* feature's stories and their Tasks were still found
C7_Witness ==
    /\ walk.pc = "done"
    /\ \E n \in 1..Len(disc_log) :
          disc_log[n].failed /\ disc_log[n].path = <<1>>
    /\ Len(walk.hierarchy.features) = 2
    /\ walk.hierarchy.features[1].user_stories = <<>>
    /\ Len(walk.hierarchy.features[2].user_stories) = 1
    /\ Len(walk.hierarchy.features[2].user_stories[1].tasks) = 1

RoundTripTree ==
    /\ NodeChildren(walk.hierarchy, <<>>, "Feature") = <<2>>
    /\ NodeChildren(walk.hierarchy, <<1>>, "User Story") = <<3>>
    /\ NodeChildren(walk.hierarchy, <<1, 1>>, "Task") = <<4>>
    /\ NodeChildren(walk.hierarchy, <<1, 1>>, "Bug") = <<5>>

\* every lookup was answered with the linked children and with their items
AnsweredAsLinked ==
    \A n \in 1..Len(disc_log) :
        /\ ~disc_log[n].failed
        /\ disc_log[n].row_targets
             = LinkedChildren(backend, disc_log[n].parent, disc_log[n].type)
        /\ disc_log[n].answer_ids = disc_log[n].row_targets

-----------------------------------------------------------------------------
(* The tool surface of server.py.  An Optional argument is a sequence of   *)
(* length at most one: <<>> is None.                                       *)

\* `opt or default` for an Optional[str]
OrStr(opt, default) == IF opt /= <<>> /\ opt[1] /= "" THEN opt[1] ELSE default

\* `opt or default` for an Optional[int]
OrInt(opt, default) == IF opt /= <<>> /\ opt[1] /= 0 THEN opt[1] ELSE default

\* s[:n] of a list
SliceTo(s, n) ==
    IF n >= 0 THEN SubSeq(s, 1, Min(n, Len(s)))
    ELSE SubSeq(s, 1, IF Len(s) + n > 0 THEN Len(s) + n ELSE 0)

\* a comparison that keeps the case of the category
LowerKeepCase(c) == c

\* str.lower() of the category names tried
Lower(c) ==
    CASE c = "Completed" -> "completed"
      [] c = "REVIEW" -> "review"
      [] OTHER -> c

\* settings.get_project_filter
get_project_filter(st, project, force_filter) ==
    LET should_filter == IF force_filter /= <<>> THEN force_filter[1]
                         ELSE st.enable_project_filtering
    IN IF should_filter /\ project /= ""
       THEN "[System.TeamProject] = '" \o project \o "'"
       ELSE ""

BacklogSelect ==
    "[System.Id], [System.Title], [System.WorkItemType], [System.State], [System.AssignedTo]"
BacklogTypesClause ==
    "[System.WorkItemType] IN ('Product Backlog Item', 'User Story', 'Feature')"
NotRemovedClause == "[System.State] <> 'Removed'"
PriorityOrder == "[Microsoft.VSTS.Common.Priority] ASC"

\* the query of the except branch of AzureDevOpsClient.get_backlog_items
ClientFallbackQuery ==
    [select |-> BacklogSelect, from |-> "WorkItems",
     where |-> <<BacklogTypesClause, NotRemovedClause>>,
     order_by |-> PriorityOrder]

\* the query of the inner except branch of the tool get_backlog_items
ServerFallbackQuery(st, req) ==
    LET project == OrStr(req.project, st.project)
        project_filter ==
            get_project_filter(st, project, req.include_project_filter)
        conditions == <<BacklogTypesClause, NotRemovedClause>>
    IN [select |-> BacklogSelect, from |-> "WorkItems",
        where |-> IF project_filter /= ""
                  THEN Append(conditions, project_filter) ELSE conditions,
        order_by |-> PriorityOrder]

\* BacklogItem(...).model_dump(), and the dict of the tool's own fallback
BacklogItemOf(item) ==
    [id |-> item.id, title |-> item.title,
     work_item_type |-> item.work_item_type, state |-> item.state,
     priority |-> None, story_points |-> None,
     assigned_to |-> item.assigned_to]

ListingTools ==
    {"get_active_work_items", "get_my_work_items", "get_work_items_by_type",
     "get_work_items_by_state", "get_work_items_with_filters",
     "get_closed_work_items", "get_work_items_by_state_category"}
ToolNames ==
    {"get_work_items", "get_work_items_by_query", "get_backlog_items",
     "get_default_work_items", "get_default_backlog"} \cup ListingTools

\* the function that runs the call: the two get_default_* tools hand over
Runs(name, st) ==
    CASE name = "get_default_work_items" ->
           (IF st.default_user /= <<>> /\ st.default_user[1] /= ""
            THEN "get_my_work_items" ELSE "get_active_work_items")
      [] name = "get_default_backlog" -> "get_backlog_items"
      [] OTHER -> name

\* the message of the except clause of each tool
ErrorPrefix(run) ==
    CASE run = "get_work_items" -> "Failed to fetch work items"
      [] run = "get_work_items_by_query" -> "Failed to execute WIQL query"
      [] run = "get_backlog_items" -> "Failed to fetch backlog items"
      [] run = "get_active_work_items" -> "Failed to fetch active work items"
      [] run = "get_my_work_items" -> "Failed to fetch work items for user"
      [] run = "get_work_items_by_type" -> "Failed to fetch work items by type"
      [] run = "get_work_items_by_state" -> "Failed to fetch work items by state"
      [] run = "get_work_items_with_filters" ->
           "Failed to fetch work items with filters"
      [] run = "get_closed_work_items" -> "Failed to fetch closed work items"
      [] run = "get_work_items_by_state_category" ->
           "Failed to fetch work items by state category"

ErrorList(message) == <<[error |-> message]>>

\* an except clause that lets the exception out of the tool
OnToolErrorRaise(run) ==
    [propagate |-> TRUE, value |-> <<>>]

\* the outermost `except Exception as e` of a tool
OnToolError(run) ==
    [propagate |-> FALSE, value |-> ErrorList(ErrorPrefix(run))]

\* the number of items a tool returns at most: <<>> when it has no cap
ResultCap(run, st, req) ==
    CASE run \in {"get_work_items", "get_work_items_by_query",
                  "get_backlog_items"} -> <<>>
      [] run \in {"get_work_items_by_state", "get_work_items_with_filters"} ->
           <<OrInt(req.max_results, st.default_max_results)>>
      [] OTHER -> <<st.default_max_results>>

\* ---- the remote service behind the tools --------------------------------

ToolTypes == <<"User Story", "Bug", "Feature">>

\* the answers of the query endpoint to a flat query
FlatWiqlResponses ==
    { HttpResponse(200, [workItems |-> <<[id |-> 2], [id |-> 1]>>]),
      HttpResponse(200, [workItems |-> <<>>]),
      HttpResponse(200, [workItems |-> <<[url |-> "u"]>>]),
      HttpResponse(404, ErrorBody),
      NotJson(200),
      TransportError }

\* the answers of the backlog-listing endpoint
BacklogsResponses ==
    { HttpResponse(200, [value |-> <<[id |-> "Microsoft.RequirementCategory"]>>]),
      HttpResponse(200, [value |-> <<>>]),
      HttpResponse(200, [value |-> <<[name |-> "Stories"]>>]),
      HttpResponse(404, ErrorBody),
      NotJson(500),
      TransportError }

\* the answers of the endpoint listing the items of one backlog
BacklogItemsResponses ==
    { HttpResponse(200, [workItems |-> <<[target |-> [id |-> 3]],
                                         [target |-> [id |-> 1]]>>]),
      HttpResponse(200, [workItems |-> <<>>]),
      HttpResponse(200, [workItems |-> <<[rel |-> "r"]>>]),
      HttpResponse(401, ErrorBody),
      TransportError }

LogEntry(method, endpoint, resp, raised, query) ==
    [method |-> method, endpoint |-> endpoint, sent |-> resp.sent,
     status |-> resp.status, raised |-> raised, query |-> query]

\* ---- the call ------------------------------------------------------------

NoArgs ==
    [ids |-> <<>>, assigned_to |-> <<>>, category |-> "active",
     max_results |-> <<>>, project |-> <<>>, include_project_filter |-> <<>>]

\* the arguments tried for each tool
Requests(name) ==
    CASE name = "get_work_items" ->
           {[NoArgs EXCEPT !.ids = l] : l \in {<<>>, <<1>>, <<3, 1>>}}
      [] name = "get_my_work_items" ->
           {[NoArgs EXCEPT !.assigned_to = a] : a \in {<<>>, <<"bob">>}}
      [] name = "get_work_items_by_state_category" ->
           {[NoArgs EXCEPT !.category = c] :
               c \in {"active", "Completed", "REVIEW", "unknown"}}
      [] name \in {"get_work_items_by_state", "get_work_items_with_filters"} ->
           {[NoArgs EXCEPT !.max_results = m] :
               m \in {<<>>, <<1>>, <<0>>, <<-1>>}}
      [] name \in {"get_backlog_items", "get_default_backlog"} ->
           {[NoArgs EXCEPT !.include_project_filter = f] :
               f \in {<<>>, <<TRUE>>, <<FALSE>>}}
      [] OTHER -> {NoArgs}

SettingsTried ==
    [project : {"proj"}, default_user : {<<>>, <<"alice">>},
     default_max_results : {default_max_results},
     enable_project_filtering : BOOLEAN]

ToolStart(name, st) ==
    [name |-> name, run |-> Runs(name, st), pc |-> "call", stage |-> "",
     ids |-> <<>>, backlog_id |-> "", result |-> <<>>]

\* the call returns `items`: the dump of each item, cut at the tool's cap
Finish(t, st, req, items) ==
    LET cap == ResultCap(t.run, st, req)
        kept == IF cap = <<>> THEN items ELSE SliceTo(items, cap[1])
    IN [t EXCEPT !.pc = "returned",
                 !.result = IF t.run = "get_backlog_items"
                            THEN [k \in 1..Len(kept) |-> BacklogItemOf(kept[k])]
                            ELSE kept]

\* an exception reaches the innermost enclosing except clause: the primary
\* backlog path falls back to the client's query, that to the tool's query,
\* everything else to the tool's error list
Fail(t) ==
    CASE t.stage = "primary" ->
           [t EXCEPT !.pc = "wiql", !.stage = "client_fallback"]
      [] t.stage = "client_fallback" ->
           [t EXCEPT !.pc = "wiql", !.stage = "server_fallback"]
      [] OTHER ->
           IF OnToolError(t.run).propagate
           THEN [t EXCEPT !.pc = "raised"]
           ELSE [t EXCEPT !.pc = "returned",
                          !.result = OnToolError(t.run).value]

\* the query a POST of this call carries; the text of the listing tools'
\* queries is not kept in this state
QueryOf(t, st, req) ==
    CASE t.stage = "client_fallback" -> ClientFallbackQuery
      [] t.stage = "server_fallback" -> ServerFallbackQuery(st, req)
      [] OTHER -> <<>>

ToolInit ==
    /\ pc = "idle"
    /\ ids = <<>>
    /\ batches = <<>>
    /\ tasks = <<>>
    /\ batch_results = <<>>
    /\ work_items = <<>>
    /\ requests = <<>>
    /\ resp_log = <<>>
    /\ completion = <<>>
    /\ WalkIdle
    /\ ConnIdle
    /\ settings \in SettingsTried
    /\ \E name \in ToolNames :
          /\ request \in Requests(name)
          /\ tool = ToolStart(name, settings)
    /\ http_log = <<>>

\* the statements of the tool before its first await
ToolEnter ==
    /\ tool.pc = "call"
    /\ tool' =
         CASE tool.run = "get_work_items" ->
                IF request.ids = <<>>
                THEN Finish(tool, settings, request, <<>>)
                ELSE [tool EXCEPT !.pc = "items", !.stage = "direct",
                                  !.ids = request.ids]
           [] tool.run = "get_my_work_items"
              /\ OrStr(request.assigned_to,
                       OrStr(settings.default_user, "")) = "" ->
                [tool EXCEPT !.pc = "returned",
                    !.result = ErrorList(
                        "No user specified and no default user configured")]
           [] tool.run = "get_work_items_by_state_category"
              /\ Lower(request.category)
                     \notin {"active", "completed", "review"} ->
                [tool EXCEPT !.pc = "returned",
                    !.result = ErrorList(
                        "Unknown state category: " \o request.category
                        \o ". Use 'active', 'completed', or 'review'")]
           [] tool.run = "get_backlog_items" ->
                [tool EXCEPT !.pc = "backlogs", !.stage = "primary"]
           [] OTHER ->
                [tool EXCEPT !.pc = "wiql", !.stage = "query"]
    /\ UNCHANGED <<settings, request, http_log>>
    /\ UNCHANGED <<fetchVars, walkVars, connVars>>

\* get_work_items_by_wiql up to its second await: the query is executed and
\* the ids of the references are collected
ToolWiql ==
    /\ tool.pc = "wiql"
    /\ \E resp \in FlatWiqlResponses :
          LET data == execute_wiql(resp)
              work_item_refs == IF data.raised THEN <<>>
                                ELSE Get(data.value, "workItems", <<>>)
              key_error == \E k \in 1..Len(work_item_refs) :
                               ~Has(work_item_refs[k], "id")
          IN /\ tool' =
                  IF data.raised \/ key_error THEN Fail(tool)
                  ELSE IF work_item_refs = <<>>
                  THEN Finish(tool, settings, request, <<>>)
                  ELSE [tool EXCEPT !.pc = "items",
                            !.ids = [k \in 1..Len(work_item_refs) |->
                                        work_item_refs[k].id]]
             /\ http_log' = Append(http_log,
                    LogEntry("POST", "wit/wiql", resp, data.raised,
                             QueryOf(tool, settings, request)))
    /\ UNCHANGED <<settings, request>>
    /\ UNCHANGED <<fetchVars, walkVars, connVars>>

\* the await of get_work_items: the items are fetched
ToolItems ==
    /\ tool.pc = "items"
    /\ \E resp \in ItemResponses(tool.ids, ToolTypes) :
          LET r == get_work_items(tool.ids, <<resp>>)
          IN /\ tool' = IF r.raised THEN Fail(tool)
                        ELSE Finish(tool, settings, request, r.value)
             /\ http_log' = Append(http_log,
                    LogEntry("GET", "wit/workitems", resp,
                             _make_request(resp).raised, <<>>))
    /\ UNCHANGED <<settings, request>>
    /\ UNCHANGED <<fetchVars, walkVars, connVars>>

\* AzureDevOpsClient.get_backlog_items: the backlog levels are requested
ToolBacklogs ==
    /\ tool.pc = "backlogs"
    /\ \E resp \in BacklogsResponses :
          LET backlog_data == _make_request(resp)
              backlogs == IF backlog_data.raised THEN <<>>
                          ELSE Get(backlog_data.value, "value", <<>>)
          IN /\ tool' =
                  IF backlog_data.raised THEN Fail(tool)
                  ELSE IF backlogs = <<>>
                  THEN Finish(tool, settings, request, <<>>)
                  ELSE IF ~Has(backlogs[1], "id") THEN Fail(tool)
                  ELSE [tool EXCEPT !.pc = "backlog_items",
                                    !.backlog_id = backlogs[1].id]
             /\ http_log' = Append(http_log,
                    LogEntry("GET", "work/backlogs", resp,
                             backlog_data.raised, <<>>))
    /\ UNCHANGED <<settings, request>>
    /\ UNCHANGED <<fetchVars, walkVars, connVars>>

\* AzureDevOpsClient.get_backlog_items: the items of the first backlog are
\* requested and the ids of their references collected
ToolBacklogItems ==
    /\ tool.pc = "backlog_items"
    /\ \E resp \in BacklogItemsResponses :
          LET items_data == _make_request(resp)
              work_item_refs == IF items_data.raised THEN <<>>
                                ELSE Get(items_data.value, "workItems", <<>>)
              key_error == \E k \in 1..Len(work_item_refs) :
                               ~Has(work_item_refs[k], "target")
          IN /\ tool' =
                  IF items_data.raised THEN Fail(tool)
                  ELSE IF work_item_refs = <<>>
                  THEN Finish(tool, settings, request, <<>>)
                  ELSE IF key_error THEN Fail(tool)
                  ELSE [tool EXCEPT !.pc = "items",
                            !.ids = [k \in 1..Len(work_item_refs) |->
                                        work_item_refs[k].target.id]]
             /\ http_log' = Append(http_log,
                    LogEntry("GET", "work/backlogs/workItems", resp,
                             items_data.raised, <<>>))
    /\ UNCHANGED <<settings, request>>
    /\ UNCHANGED <<fetchVars, walkVars, connVars>>

ToolNext ==
    \/ ToolEnter
    \/ ToolWiql
    \/ ToolItems
    \/ ToolBacklogs
    \/ ToolBacklogItems

SpecTool == ToolInit /\ [][ToolNext]_vars

-----------------------------------------------------------------------------
(* Properties of the tool surface                                          *)

IsErrorList(r) == Len(r) = 1 /\ DOMAIN r[1] = {"error"}

WorkItemKeys ==
    {"id", "title", "work_item_type", "state", "assigned_to",
     "created_date", "changed_date", "description", "tags"}
BacklogItemKeys ==
    {"id", "title", "work_item_type", "state", "priority", "story_points",
     "assigned_to"}

IsRecordList(r) ==
    \A k \in 1..Len(r) : DOMAIN r[k] \in {WorkItemKeys, BacklogItemKeys}

\* a request of the primary backlog path (the listing of the backlog levels
\* or of the items of a level) was not answered with a 2xx response
PrimaryFailed ==
    \E k \in 1..Len(http_log) :
        /\ http_log[k].endpoint \in {"work/backlogs", "work/backlogs/workItems"}
        /\ ~http_log[k].sent \/ ~Is2xx(http_log[k].status)

IsFallbackQuery(q) ==
    /\ q /= <<>>
    /\ SubSeq(q.where, 1, 2) = <<BacklogTypesClause, NotRemovedClause>>
    /\ q.order_by = PriorityOrder

FallbackIssued ==
    \E k \in 1..Len(http_log) :
        http_log[k].method = "POST" /\ IsFallbackQuery(http_log[k].query)

\* C5: every request answered with a non-2xx status raised an error to its
\* caller, the GET requests of _make_request as well as the query POST.
C5_Non2xxRaises ==
    \A k \in 1..Len(http_log) :
        (http_log[k].sent /\ ~Is2xx(http_log[k].status)) => http_log[k].raised

\* C9: no tool call ends raised; a call that has not returned can take a
\* step; a returned call holds a list of item or backlog-item records or a
\* single {error: message} record, whatever its requests were answered.
C9_ToolsNeverRaise ==
    /\ tool /= <<>> =>
         /\ tool.pc /= "raised"
         /\ tool.pc /= "returned" => ENABLED ToolNext
         /\ tool.pc = "returned" =>
              IsErrorList(tool.result) \/ IsRecordList(tool.result)

\* a default-backlog call whose listing request got no answer, whose first
\* fallback query was answered non-2xx and whose second was answered 200 with
\* a body that is not JSON, returned the error record
C9_Witness ==
    /\ tool /= <<>>
    /\ tool.pc = "returned"
    /\ tool.name = "get_default_backlog"
    /\ Len(http_log) = 3
    /\ ~http_log[1].sent
    /\ http_log[2].sent /\ ~Is2xx(http_log[2].status) /\ http_log[2].raised
    /\ http_log[3].sent /\ Is2xx(http_log[3].status) /\ http_log[3].raised
    /\ tool.result = ErrorList("Failed to fetch backlog items")

\* C10: a returned backlog call whose primary listing request failed (no
\* answer, or a non-2xx answer) has issued the fallback query on the three
\* backlog types, state not Removed, ordered by priority ascending.
C10_FallbackOnPrimaryFailure ==
    (tool /= <<>> /\ tool.run = "get_backlog_items" /\ tool.pc = "returned"
        /\ PrimaryFailed)
    => FallbackIssued

-----------------------------------------------------------------------------
(* The query text the tools of server.py compose.  A line break of a       *)
(* template, with its indentation, is written as one space.                *)

\* sep.join(parts)
RECURSIVE JoinWith(_, _)
JoinWith(parts, sep) ==
    IF parts = <<>> THEN ""
    ELSE IF Len(parts) = 1 THEN parts[1]
    ELSE parts[1] \o sep \o JoinWith(Tail(parts), sep)

\* the least index at which `sub` occurs in `text`, 0 when it does not
IndexOf(text, sub) ==
    LET at == {i \in 1..(Len(text) - Len(sub) + 1) :
                  SubSeq(text, i, i + Len(sub) - 1) = sub}
    IN IF at = {} THEN 0 ELSE CHOOSE i \in at : \A j \in at : i <= j

\* `sub in text`
Contains(text, sub) ==
    \E i \in 1..(Len(text) - Len(sub) + 1) :
        SubSeq(text, i, i + Len(sub) - 1) = sub

\* text.startswith(sub)
StartsWith(text, sub) ==
    Len(sub) <= Len(text) /\ SubSeq(text, 1, Len(sub)) = sub

\* text.replace(old, new, 1)
ReplaceFirst(text, old, new) ==
    LET i == IndexOf(text, old)
    IN IF i = 0 THEN text
       ELSE SubSeq(text, 1, i - 1) \o new
            \o SubSeq(text, i + Len(old), Len(text))

StateEq(state) == "[System.State] = '" \o state \o "'"
TypeEq(t) == "[System.WorkItemType] = '" \o t \o "'"
AssignedEq(user) == "[System.AssignedTo] = '" \o user \o "'"
IterationUnder(path) == "[System.IterationPath] UNDER '" \o path \o "'"
AreaUnder(path) == "[System.AreaPath] UNDER '" \o path \o "'"
NotClosedClause == "[System.State] <> 'Closed'"

\* "(a OR b)" over the conditions
OrGroup(conds) == "(" \o JoinWith(conds, " OR ") \o ")"

\* the OR-group of equality predicates over the states / the types
StateGroup(states) == OrGroup([k \in 1..Len(states) |-> StateEq(states[k])])
TypeGroup(types) == OrGroup([k \in 1..Len(types) |-> TypeEq(types[k])])

\* "'a','b'" of the IN list over the types
TypeInList(types) ==
    JoinWith([k \in 1..Len(types) |-> "'" \o types[k] \o "'"], ",")

SelectFrom ==
    "SELECT " \o BacklogSelect \o " FROM WorkItems WHERE "
ChangedOrder == " ORDER BY [System.ChangedDate] DESC"

\* `opt or default`: an explicit False falls back to the default
OrDefaultTruthy(opt, default) ==
    IF opt /= <<>> /\ opt[1] THEN TRUE ELSE default

\* `opt if opt is not None else default` for an Optional[bool]
OrDefault(opt, default) == IF opt /= <<>> THEN opt[1] ELSE default

\* settings.get_default_state_filter
get_default_state_filter(st) ==
    LET conditions ==
            (IF st.exclude_closed THEN <<NotClosedClause>> ELSE <<>>)
            \o (IF st.exclude_removed THEN <<NotRemovedClause>> ELSE <<>>)
    IN IF conditions /= <<>>
       THEN " AND " \o JoinWith(conditions, " AND ") ELSE ""

\* settings.get_default_wiql_filters
get_default_wiql_filters(st, project, include_project_filter) ==
    LET state_filter == get_default_state_filter(st)
        project_filter ==
            IF project /= ""
            THEN get_project_filter(st, project, include_project_filter)
            ELSE ""
        filters ==
            (IF state_filter /= ""
             THEN <<ReplaceFirst(state_filter, " AND ", "")>> ELSE <<>>)
            \o (IF OrStr(st.default_iteration_path, "") /= ""
                THEN <<IterationUnder(st.default_iteration_path[1])>>
                ELSE <<>>)
            \o (IF OrStr(st.default_area_path, "") /= ""
                THEN <<AreaUnder(st.default_area_path[1])>> ELSE <<>>)
            \o (IF project_filter /= "" THEN <<project_filter>> ELSE <<>>)
    IN IF filters /= <<>>
       THEN " AND " \o JoinWith(filters, " AND ") ELSE ""

\* the outcome of the statements of a tool up to its query: the list
\* `conditions` where the tool keeps one, the text of the query, and the
\* value returned instead of a query, if any
Composed(conditions, wiql) ==
    [conditions |-> conditions, wiql |-> wiql, early |-> <<>>]
EarlyReturn(value) ==
    [conditions |-> <<>>, wiql |-> "", early |-> <<value>>]

\* `request.project or settings.project`
TargetProject(st, req) == OrStr(req.project, st.project)

\* the state filter of get_my_work_items and get_work_items_by_type
StatesOrDefaults(st, req) ==
    IF req.states /= <<>>
    THEN "AND " \o StateGroup(req.states)
    ELSE get_default_wiql_filters(st, TargetProject(st, req),
                                  req.include_project_filter)

\* the type condition of get_work_items_by_state and get_closed_work_items
TypeCondition(st, req) ==
    IF OrStr(req.work_item_type, "") /= ""
    THEN TypeEq(req.work_item_type[1])
    ELSE TypeGroup(st.default_work_item_types_list)

ProjectCondition(st, req) ==
    LET project_filter ==
            get_project_filter(st, TargetProject(st, req),
                               req.include_project_filter)
    IN IF project_filter /= "" THEN <<project_filter>> ELSE <<>>

AssignedCondition(req) ==
    IF OrStr(req.assigned_to, "") /= ""
    THEN <<AssignedEq(req.assigned_to[1])>> ELSE <<>>

ComposeActive(st, req) ==
    LET default_filters ==
            get_default_wiql_filters(st, TargetProject(st, req),
                                     req.include_project_filter)
    IN Composed(<<>>,
         SelectFrom \o "[System.WorkItemType] IN ("
         \o TypeInList(st.default_work_item_types_list) \o ") "
         \o default_filters \o ChangedOrder)

ComposeMine(st, req) ==
    LET user == OrStr(req.assigned_to, OrStr(st.default_user, ""))
    IN IF user = ""
       THEN EarlyReturn(ErrorList(
                "No user specified and no default user configured"))
       ELSE Composed(<<>>,
              SelectFrom \o AssignedEq(user)
              \o " AND [System.WorkItemType] IN ("
              \o TypeInList(st.default_work_item_types_list) \o ") "
              \o StatesOrDefaults(st, req) \o ChangedOrder)

ComposeByType(st, req) ==
    Composed(<<>>,
      SelectFrom \o TypeEq(req.work_item_type[1]) \o " "
      \o StatesOrDefaults(st, req) \o ChangedOrder)

ComposeByState(st, req) ==
    LET conditions ==
            <<StateEq(req.state)>> \o <<TypeCondition(st, req)>>
            \o AssignedCondition(req) \o ProjectCondition(st, req)
        iteration_filter ==
            IF OrStr(st.default_iteration_path, "") /= ""
            THEN "AND " \o IterationUnder(st.default_iteration_path[1])
            ELSE ""
        area_filter ==
            IF OrStr(st.default_area_path, "") /= ""
            THEN "AND " \o AreaUnder(st.default_area_path[1]) ELSE ""
    IN Composed(conditions,
         SelectFrom \o JoinWith(conditions, " AND ") \o " "
         \o iteration_filter \o " " \o area_filter \o ChangedOrder)

\* str.strip() of a text whose only white space is the space
RECURSIVE Strip(_)
Strip(text) ==
    IF Len(text) > 0 /\ SubSeq(text, 1, 1) = " "
    THEN Strip(SubSeq(text, 2, Len(text)))
    ELSE IF Len(text) > 0 /\ SubSeq(text, Len(text), Len(text)) = " "
    THEN Strip(SubSeq(text, 1, Len(text) - 1))
    ELSE text

\* text.split(","): one part more than there are commas, never no part
RECURSIVE SplitComma(_)
SplitComma(text) ==
    LET i == IndexOf(text, ",")
    IN IF i = 0 THEN <<text>>
       ELSE <<SubSeq(text, 1, i - 1)>>
            \o SplitComma(SubSeq(text, i + 1, Len(text)))

\* the property default_work_item_types_list of the settings, as a function
\* of the setting default_work_item_types
default_work_item_types_list(default_work_item_types) ==
    LET parts == SplitComma(default_work_item_types)
    IN [k \in 1..Len(parts) |-> Strip(parts[k])]

\* a type filter that is left out when the request names no type
TypePartWhenGiven(st, req) ==
    IF req.work_item_types /= <<>>
    THEN <<TypeGroup(req.work_item_types)>>
    ELSE <<>>

\* the work item type filter of get_work_items_with_filters
TypePart(st, req) ==
    IF req.work_item_types /= <<>>
    THEN <<TypeGroup(req.work_item_types)>>
    ELSE <<TypeGroup(st.default_work_item_types_list)>>

\* a builder that appends the assignee before the type
ComposeWithFiltersAssigneeFirst(st, req) ==
    LET conditions ==
            AssignedCondition(req)
            \o <<TypeGroup(st.default_work_item_types_list)>>
            \o ProjectCondition(st, req)
    IN Composed(conditions,
         SelectFrom \o JoinWith(conditions, " AND ") \o ChangedOrder)

ComposeWithFilters(st, req) ==
    LET exclude_closed == OrDefault(req.exclude_closed, st.exclude_closed)
        exclude_removed == OrDefault(req.exclude_removed, st.exclude_removed)
        state_part ==
            IF req.states /= <<>> THEN <<StateGroup(req.states)>>
            ELSE (IF exclude_closed THEN <<NotClosedClause>> ELSE <<>>)
                 \o (IF exclude_removed THEN <<NotRemovedClause>> ELSE <<>>)
        type_part == TypePart(st, req)
        iteration_path ==
            OrStr(req.iteration_path, OrStr(st.default_iteration_path, ""))
        area_path == OrStr(req.area_path, OrStr(st.default_area_path, ""))
        conditions ==
            state_part \o type_part \o AssignedCondition(req)
            \o (IF iteration_path /= ""
                THEN <<IterationUnder(iteration_path)>> ELSE <<>>)
            \o (IF area_path /= "" THEN <<AreaUnder(area_path)>> ELSE <<>>)
            \o ProjectCondition(st, req)
        where_clause == IF conditions /= <<>>
                        THEN JoinWith(conditions, " AND ") ELSE "1 = 1"
    IN Composed(conditions, SelectFrom \o where_clause \o ChangedOrder)

ComposeClosed(st, req) ==
    LET conditions ==
            <<StateEq("Closed")>> \o <<TypeCondition(st, req)>>
            \o AssignedCondition(req) \o ProjectCondition(st, req)
    IN Composed(conditions,
         SelectFrom \o JoinWith(conditions, " AND ") \o ChangedOrder)

ComposeByCategory(st, req) ==
    LET c == Lower(req.category)
        states == CASE c = "active" -> st.default_active_states_list
                    [] c = "completed" -> st.default_completed_states_list
                    [] c = "review" -> st.default_review_states_list
                    [] OTHER -> <<>>
        project_filter ==
            get_project_filter(st, TargetProject(st, req),
                               req.include_project_filter)
        default_filters ==
            (IF OrStr(st.default_iteration_path, "") /= ""
             THEN " AND " \o IterationUnder(st.default_iteration_path[1])
             ELSE "")
            \o (IF OrStr(st.default_area_path, "") /= ""
                THEN " AND " \o AreaUnder(st.default_area_path[1]) ELSE "")
            \o (IF project_filter /= "" THEN " AND " \o project_filter
                ELSE "")
    IN IF c \notin {"active", "completed", "review"}
       THEN EarlyReturn(ErrorList(
                "Unknown state category: " \o req.category
                \o ". Use 'active', 'completed', or 'review'"))
       ELSE Composed(<<>>,
              SelectFrom \o StateGroup(states) \o " AND "
              \o TypeGroup(st.default_work_item_types_list) \o " "
              \o default_filters \o ChangedOrder)

\* the query of each composing tool
Compose(run, st, req) ==
    CASE run = "get_active_work_items" -> ComposeActive(st, req)
      [] run = "get_my_work_items" -> ComposeMine(st, req)
      [] run = "get_work_items_by_type" -> ComposeByType(st, req)
      [] run = "get_work_items_by_state" -> ComposeByState(st, req)
      [] run = "get_work_items_with_filters" -> ComposeWithFilters(st, req)
      [] run = "get_closed_work_items" -> ComposeClosed(st, req)
      [] run = "get_work_items_by_state_category" ->
           ComposeByCategory(st, req)

\* ---- the composing of one query ------------------------------------------

OptBool == {<<>>, <<TRUE>>, <<FALSE>>}

QueryArgs ==
    [assigned_to |-> <<>>, states |-> <<>>, state |-> "Active",
     work_item_type |-> <<>>, work_item_types |-> <<>>,
     iteration_path |-> <<>>, area_path |-> <<>>,
     exclude_closed |-> <<>>, exclude_removed |-> <<>>,
     category |-> "active", project |-> <<>>,
     include_project_filter |-> <<>>]

\* the arguments tried for each composing tool, before the project and the
\* project-filter override
QueryRequestsOf(name) ==
    LET users == {<<>>, <<"bob">>}
        statesTried == {<<>>, <<"Active">>, <<"New", "Active">>}
        typeTried == {<<>>, <<"Bug">>}
    IN CASE name = "get_my_work_items" ->
              {[QueryArgs EXCEPT !.assigned_to = a, !.states = s] :
                  a \in users, s \in statesTried}
         [] name = "get_work_items_by_type" ->
              {[QueryArgs EXCEPT !.work_item_type = <<"Bug">>, !.states = s] :
                  s \in statesTried}
         [] name \in {"get_work_items_by_state", "get_closed_work_items"} ->
              {[QueryArgs EXCEPT !.work_item_type = t, !.assigned_to = a] :
                  t \in typeTried, a \in users}
         [] name = "get_work_items_with_filters" ->
              {[QueryArgs EXCEPT !.states = s, !.work_item_types = t,
                                 !.assigned_to = a, !.iteration_path = i,
                                 !.area_path = p, !.exclude_closed = c,
                                 !.exclude_removed = r] :
                  s \in {<<>>, <<"New", "Active">>},
                  t \in {<<>>, <<"Task", "Bug">>},
                  a \in users, i \in {<<>>, <<"It\\S1">>},
                  p \in {<<>>, <<"Ar\\T1">>}, c \in OptBool, r \in OptBool}
         [] name = "get_work_items_by_state_category" ->
              {[QueryArgs EXCEPT !.category = c] :
                  c \in {"active", "Completed", "REVIEW", "unknown"}}
         [] OTHER -> {QueryArgs}

QueryRequests(name) ==
    {[q EXCEPT !.project = p, !.include_project_filter = f] :
        q \in QueryRequestsOf(name),
        p \in IF name = "get_work_items_with_filters"
               THEN {<<"other">>} ELSE {<<>>, <<"other">>},
        f \in OptBool}

\* the settings tried with the usual default types
UsualQuerySettings(name) ==
    [project : {"proj"},
     default_user : IF name = "get_my_work_items"
                    THEN {<<>>, <<"alice">>} ELSE {<<>>},
     enable_project_filtering : BOOLEAN,
     exclude_closed : BOOLEAN,
     exclude_removed : BOOLEAN,
     default_iteration_path : {<<>>, <<"It\\D">>},
     default_area_path : {<<>>, <<"Ar\\D">>},
     default_work_item_types_list :
         {default_work_item_types_list("Bug, User Story")},
     default_active_states_list : {<<"Active", "New", "In Progress">>},
     default_completed_states_list : {<<"Closed", "Done">>},
     default_review_states_list : {<<"Code Review", "Testing">>}]

\* for get_work_items_with_filters also the settings that switch every
\* default off and set default_work_item_types to the empty text
QuerySettings(name) ==
    IF name = "get_work_items_with_filters"
    THEN UsualQuerySettings(name) \cup
         {[s EXCEPT !.default_work_item_types_list =
                        default_work_item_types_list("")] :
            s \in {u \in UsualQuerySettings(name) :
                      /\ ~u.enable_project_filtering
                      /\ ~u.exclude_closed /\ ~u.exclude_removed
                      /\ u.default_iteration_path = <<>>
                      /\ u.default_area_path = <<>>}}
    ELSE UsualQuerySettings(name)

QueryInit ==
    /\ pc = "idle"
    /\ ids = <<>>
    /\ batches = <<>>
    /\ tasks = <<>>
    /\ batch_results = <<>>
    /\ work_items = <<>>
    /\ requests = <<>>
    /\ resp_log = <<>>
    /\ completion = <<>>
    /\ WalkIdle
    /\ ConnIdle
    /\ \E name \in ListingTools :
          /\ settings \in QuerySettings(name)
          /\ request \in QueryRequests(name)
          /\ tool = [name |-> name, run |-> name, pc |-> "call",
                     conditions |-> <<>>, wiql |-> "", result |-> <<>>]
    /\ http_log = <<>>

\* the tool runs up to the await of its query
QueryCompose ==
    /\ tool.pc = "call"
    /\ LET q == Compose(tool.run, settings, request)
       IN /\ q.early = <<>>
          /\ tool' = [tool EXCEPT !.pc = "wiql", !.conditions = q.conditions,
                                  !.wiql = q.wiql]
    /\ UNCHANGED <<settings, request, http_log>>
    /\ UNCHANGED <<fetchVars, walkVars, connVars>>

\* the tool returns before any query
QueryEarlyReturn ==
    /\ tool.pc = "call"
    /\ LET q == Compose(tool.run, settings, request)
       IN /\ q.early /= <<>>
          /\ tool' = [tool EXCEPT !.pc = "returned", !.result = q.early[1]]
    /\ UNCHANGED <<settings, request, http_log>>
    /\ UNCHANGED <<fetchVars, walkVars, connVars>>

QueryNext ==
    \/ QueryCompose
    \/ QueryEarlyReturn

SpecQuery == QueryInit /\ [][QueryNext]_vars

-----------------------------------------------------------------------------
(* Properties of the composed queries                                      *)

\* the text between WHERE and ORDER BY
WhereText(wiql) ==
    SubSeq(wiql, IndexOf(wiql, " WHERE ") + 7, IndexOf(wiql, " ORDER BY ") - 1)

\* the place of a clause in the fixed sequence, by the field it tests
ClauseRank(clause) ==
    CASE Contains(clause, "[System.State]") -> 1
      [] Contains(clause, "[System.WorkItemType]") -> 2
      [] Contains(clause, "[System.AssignedTo]") -> 3
      [] Contains(clause, "[System.IterationPath]") -> 4
      [] Contains(clause, "[System.AreaPath]") -> 5
      [] Contains(clause, "[System.TeamProject]") -> 6
      [] OTHER -> 0

Composing(name) == tool /= <<>> /\ tool.run = name /\ tool.pc = "wiql"

\* the values of the exclude flags in force for the request
EffectiveExcludeClosed ==
    IF request.exclude_closed /= <<>> THEN request.exclude_closed[1]
    ELSE settings.exclude_closed
EffectiveExcludeRemoved ==
    IF request.exclude_removed /= <<>> THEN request.exclude_removed[1]
    ELSE settings.exclude_removed

\* whether project filtering is in force for the request
EffectiveProjectFilter ==
    IF request.include_project_filter /= <<>>
    THEN request.include_project_filter[1]
    ELSE settings.enable_project_filtering

StatesKnown == {"Active", "New", "Closed", "Removed"}

\* C11: the clauses of get_work_items_with_filters stand in the order state,
\* type, assignee, iteration path, area path, project (only the two state
\* exclusions share a place), the WHERE text is these clauses joined by AND,
\* and the text is the one the request and the settings determine.
C11_ClauseOrder ==
    Composing("get_work_items_with_filters") =>
        LET c == tool.conditions
            n == Len(c)
            where == WhereText(tool.wiql)
        IN /\ n >= 1
           /\ \A k \in 1..n : ClauseRank(c[k]) \in 1..6
           /\ \A k \in 1..(n - 1) :
                 /\ ClauseRank(c[k]) <= ClauseRank(c[k + 1])
                 /\ ClauseRank(c[k]) = ClauseRank(c[k + 1])
                       => ClauseRank(c[k]) = 1
                 /\ Contains(where, c[k] \o " AND " \o c[k + 1])
           /\ StartsWith(where, c[1])
           /\ Len(where) = Len(JoinWith(c, "")) + 5 * (n - 1)
           /\ tool.wiql =
                 Compose(tool.run, settings, request).wiql

\* every optional field is set: six clauses, one of each kind
C11_Witness ==
    /\ Composing("get_work_items_with_filters")
    /\ Len(tool.conditions) = 6
    /\ request.states = <<"New", "Active">>
    /\ request.iteration_path /= <<>>
    /\ request.area_path /= <<>>

\* C12: with states given, the state clause of get_work_items_with_filters is
\* one OR-group of equalities over exactly those states and there is no
\* exclusion; without, `<> 'Closed'` is there iff the effective exclude_closed
\* is true and `<> 'Removed'` iff the effective exclude_removed is true.
C12_StateClause ==
    Composing("get_work_items_with_filters") =>
        LET where == WhereText(tool.wiql)
            states == request.states
            n == Len(states)
        IN IF states /= <<>>
           THEN /\ StartsWith(where, "(" \o StateEq(states[1]))
                /\ \A k \in 1..(n - 1) :
                      Contains(where, StateEq(states[k]) \o " OR "
                                      \o StateEq(states[k + 1]))
                /\ Contains(where, StateEq(states[n]) \o ") AND ")
                /\ \A s \in StatesKnown :
                      Contains(where, StateEq(s))
                          <=> \E k \in 1..n : states[k] = s
                /\ ~Contains(where, "[System.State] <>")
           ELSE /\ Contains(where, "[System.State] <> 'Closed'")
                      <=> EffectiveExcludeClosed
                /\ Contains(where, "[System.State] <> 'Removed'")
                      <=> EffectiveExcludeRemoved
                /\ ~Contains(where, "[System.State] =")

\* no states; the request's exclude_closed = false wins over a true default
\* while exclude_removed falls back to the true default
C12_Witness ==
    /\ Composing("get_work_items_with_filters")
    /\ request.states = <<>>
    /\ request.exclude_closed = <<FALSE>>
    /\ settings.exclude_closed
    /\ request.exclude_removed = <<>>
    /\ settings.exclude_removed
    /\ tool.conditions[1] = NotRemovedClause

\* C13: in every composing tool the project predicate on the target project
\* is in the WHERE text exactly when project filtering is in force for the
\* call, the per-call value winning over the settings flag.
C13_ProjectClause ==
    (tool /= <<>> /\ tool.pc = "wiql") =>
        (Contains(WhereText(tool.wiql),
                  "[System.TeamProject] = '"
                  \o TargetProject(settings, request) \o "'")
            <=> EffectiveProjectFilter)

-----------------------------------------------------------------------------
(* The state-category tool                                                 *)

ByCategory ==
    tool /= <<>> /\ tool.name = "get_work_items_by_state_category"

\* C14: get_work_items_by_state_category with the category "unknown" never
\* issues a request and returns the single error record; the categories
\* "Completed" and "REVIEW" are taken as completed and review and do not
\* return before a request was issued.
C14_UnknownCategory ==
    /\ (ByCategory /\ request.category = "unknown") =>
          /\ http_log = <<>>
          /\ tool.pc \in {"call", "returned"}
          /\ tool.pc = "returned" =>
                /\ IsErrorList(tool.result)
                /\ StartsWith(tool.result[1].error,
                              "Unknown state category: unknown")
    /\ (ByCategory /\ request.category \in {"active", "Completed", "REVIEW"}
            /\ tool.pc = "returned")
          => http_log /= <<>>

C14_Witness ==
    /\ ByCategory
    /\ request.category = "unknown"
    /\ tool.pc = "returned"
    /\ IsErrorList(tool.result)
    /\ http_log = <<>>

-----------------------------------------------------------------------------
(* EpicHierarchyExporter.generate_markdown                                 *)

\* `item.assigned_to or 'Unassigned'`
OrUnassigned(assigned_to) ==
    IF assigned_to = None \/ assigned_to = "" THEN "Unassigned"
    ELSE assigned_to

\* the header lines of the Epic, of a Feature and of a User Story
HeadingLines(heading, item, with_created) ==
    <<heading \o item.title,
      "**ID:** " \o ToString(item.id),
      "**State:** " \o item.state,
      "**Assigned To:** " \o OrUnassigned(item.assigned_to)>>
    \o (IF with_created THEN <<"**Created:** " \o item.created_date>>
        ELSE <<>>)
    \o (IF item.description /= ""
        THEN <<"**Description:** " \o item.description>> ELSE <<>>)
    \o <<"">>

\* the block of the Tasks or of the Bugs of a User Story
ChildLines(title, number, label, items) ==
    IF items = <<>> THEN <<>>
    ELSE <<title>>
         \o Flatten([k \in 1..Len(items) |->
              <<"- **" \o number \o ToString(k) \o " " \o label \o ":** "
                    \o items[k].title,
                "  - **ID:** " \o ToString(items[k].id),
                "  - **State:** " \o items[k].state,
                "  - **Assigned To:** "
                    \o OrUnassigned(items[k].assigned_to)>>])
         \o <<"">>

StoryLines(i, j, us_data) ==
    LET number == ToString(i) \o "." \o ToString(j)
    IN HeadingLines("### " \o number \o " User Story: ",
                    us_data.work_item, FALSE)
       \o ChildLines("#### Tasks:", number \o ".T", "Task", us_data.tasks)
       \o ChildLines("#### Bugs:", number \o ".B", "Bug", us_data.bugs)

NoStoriesNotice == "*No User Stories found for this Feature*"

FeatureLines(i, feature_data) ==
    HeadingLines("## " \o ToString(i) \o ". Feature: ",
                 feature_data.work_item, FALSE)
    \o (IF feature_data.user_stories /= <<>>
        THEN Flatten([j \in 1..Len(feature_data.user_stories) |->
                        StoryLines(i, j, feature_data.user_stories[j])])
        ELSE <<NoStoriesNotice, "">>)

\* generate_markdown: the lines, before they are joined by line breaks
generate_markdown(hierarchy) ==
    HeadingLines("# Epic: ", hierarchy.epic, TRUE)
    \o Flatten([i \in 1..Len(hierarchy.features) |->
                  FeatureLines(i, hierarchy.features[i])])

\* a line that is a notice
IsNotice(line) == StartsWith(line, "*No ")

\* C15: the tree of an Epic for which no Feature was found has an empty
\* Feature sequence, and its document holds a top-level notice, which is not
\* the notice of a Feature without User Stories.
C15_EmptyFeaturesNotice ==
    (walk /= <<>> /\ walk.pc = "done"
        /\ LinkedChildren(backend, epic_id, "Feature") = <<>>
        /\ walk.features = <<>>) =>
        LET md_lines == generate_markdown(walk.hierarchy)
        IN /\ walk.hierarchy.features = <<>>
           /\ \E k \in 1..Len(md_lines) :
                 IsNotice(md_lines[k]) /\ md_lines[k] /= NoStoriesNotice

-----------------------------------------------------------------------------
(* The requests of one get_epic_hierarchy call                             *)

\* the walk under a scheduler that answers every awaited request
SpecWalkFair == SpecWalk /\ WF_vars(WalkNext)

WalkEnded == walk.pc \in {"done", "failed"}

RECURSIVE SumSeq(_)
SumSeq(s) == IF s = <<>> THEN 0 ELSE Head(s) + SumSeq(Tail(s))

\* the number of children of type `type` the discovery steps returned
Found(type) ==
    SumSeq([n \in 1..Len(disc_log) |->
               IF disc_log[n].type = type /\ ~disc_log[n].failed
               THEN Len(disc_log[n].answer_ids) ELSE 0])

\* the parent and type of each query a walk that returns `h` is to issue
ExpectedQueries(h) ==
    <<[parent |-> h.epic.id, type |-> "Feature"]>>
    \o Flatten([i \in 1..Len(h.features) |->
         <<[parent |-> h.features[i].work_item.id, type |-> "User Story"]>>
         \o Flatten([j \in 1..Len(h.features[i].user_stories) |->
              LET us == h.features[i].user_stories[j].work_item
              IN <<[parent |-> us.id, type |-> "Task"],
                   [parent |-> us.id, type |-> "Bug"]>>])])

QueryCounts ==
    /\ calls /= <<>> =>
          /\ calls[1].op = "items" /\ calls[1].ids = <<epic_id>>
          /\ \A k \in 2..Len(calls) :
                /\ calls[k].type /= "root"
                /\ calls[k].op = "items" =>
                      /\ calls[k - 1].op = "wiql"
                      /\ ~calls[k - 1].raised
                      /\ calls[k - 1].answer /= <<>>
                      /\ calls[k - 1].parent = calls[k].parent
                      /\ calls[k - 1].type = calls[k].type
    /\ walk.pc = "done" =>
          /\ Len(WiqlCalls) = 1 + Found("Feature") + 2 * Found("User Story")
          /\ [k \in 1..Len(WiqlCalls) |->
                [parent |-> WiqlCalls[k].parent, type |-> WiqlCalls[k].type]]
             = ExpectedQueries(walk.hierarchy)

\* C16: every walk ends; it issues one root fetch, then 1 + F + 2*S discovery
\* queries, one per parent per type in tree order, repeated parents included,
\* and an item fetch only right after a query that returned target ids.
C16_QueryBudget == []QueryCounts /\ <>WalkEnded

\* User Story 4 stands under both Features: its Tasks and its Bugs are looked
\* up twice, seven queries in all
C16_Witness ==
    /\ walk.pc = "done"
    /\ backend.links = SharedLinks
    /\ Found("Feature") = 2
    /\ Found("User Story") = 2
    /\ Len(WiqlCalls) = 7
    /\ Len(SelectSeq(WiqlCalls,
                     LAMBDA c : c.parent = 4 /\ c.type = "Task")) = 2

\* the place of a discovery step in the order of the tree
StepKey(e) ==
    CASE e.type = "Feature" -> <<0, 0, 0>>
      [] e.type = "User Story" -> <<e.path[1], 0, 0>>
      [] e.type = "Task" -> <<e.path[1], e.path[2], 1>>
      [] e.type = "Bug" -> <<e.path[1], e.path[2], 2>>

KeyBefore(a, b) ==
    \/ a[1] < b[1]
    \/ a[1] = b[1] /\ a[2] < b[2]
    \/ a[1] = b[1] /\ a[2] = b[2] /\ a[3] < b[3]

\* the calls of the discovery steps, the root fetch left out
StepCalls == SubSeq(calls, 2, Len(calls))

\* C17: the discovery steps run one after the other: every item resolution
\* directly follows the query of its own step, so a step has ended when the
\* next query starts; the steps start in the order of the tree, and the Bug
\* lookup of a User Story starts right after its Task lookup has ended.
C17_Sequential ==
    /\ \A k \in 1..Len(StepCalls) :
          StepCalls[k].op = "items" =>
              /\ k > 1
              /\ StepCalls[k - 1].op = "wiql"
              /\ StepCalls[k - 1].parent = StepCalls[k].parent
              /\ StepCalls[k - 1].type = StepCalls[k].type
    /\ Len(WiqlCalls) = Len(disc_log)
    /\ walk.pc = "resolve" =>
          /\ disc_log[Len(disc_log)].parent = walk.parent
          /\ disc_log[Len(disc_log)].type = walk.type
          /\ calls[Len(calls)].op = "wiql"
    /\ \A n \in 1..Len(disc_log) :
          /\ disc_log[n].parent = WiqlCalls[n].parent
          /\ disc_log[n].type = WiqlCalls[n].type
          /\ n > 1 => KeyBefore(StepKey(disc_log[n - 1]), StepKey(disc_log[n]))
          /\ disc_log[n].type = "Bug" =>
                /\ n > 1
                /\ disc_log[n - 1].type = "Task"
                /\ disc_log[n - 1].path = disc_log[n].path
                /\ disc_log[n - 1].parent = disc_log[n].parent
          /\ (disc_log[n].type = "Task" /\ n < Len(disc_log)) =>
                disc_log[n + 1].type = "Bug"

\* the Tasks of a User Story were queried and resolved, then its Bugs were
\* queried and resolved, then the next Feature was looked up
C17_Witness ==
    /\ walk.pc = "done"
    /\ Len(calls) >= 8
    /\ \E k \in 2..(Len(calls) - 4) :
          /\ calls[k].op = "wiql" /\ calls[k].type = "Task"
          /\ calls[k + 1].op = "items" /\ calls[k + 1].type = "Task"
          /\ calls[k + 2].op = "wiql" /\ calls[k + 2].type = "Bug"
          /\ calls[k + 3].op = "items" /\ calls[k + 3].type = "Bug"
          /\ calls[k + 4].op = "wiql" /\ calls[k + 4].type = "User Story"

-----------------------------------------------------------------------------
(* The connection handle of one AzureDevOpsClient (client.py l.47-79) in   *)
(* one process.  The entry points of the repository are "server" (main.py, *)
(* the tools share the module's client) and "export" (main of              *)
(* epic_hierarchy_exporter.py, the exporter's own client); "library" is a  *)
(* caller of the client that also calls close().                           *)

\* a property that creates a handle at every read
clientAlwaysNew(c, hs) ==
    [_client |-> Len(hs) + 1, handles |-> Append(hs, "open")]

\* the property `client`: the handle is created when `_client` is None
client(c, hs) ==
    IF c = 0
    THEN [_client |-> Len(hs) + 1, handles |-> Append(hs, "open")]
    ELSE [_client |-> c, handles |-> hs]

RemoteOps == {"post_wiql", "get_items", "get_backlog"}

\* the remote calls each entry point makes
OpsOf(entry) ==
    IF entry = "export" THEN {"post_wiql", "get_items"} ELSE RemoteOps

ConnInit ==
    /\ pc = "idle"
    /\ ids = <<>>
    /\ batches = <<>>
    /\ tasks = <<>>
    /\ batch_results = <<>>
    /\ work_items = <<>>
    /\ requests = <<>>
    /\ resp_log = <<>>
    /\ completion = <<>>
    /\ WalkIdle
    /\ ToolIdle
    /\ _client = 0
    /\ handles = <<>>
    /\ conn_log = <<>>
    /\ \E entry \in {"server", "export", "library"} :
          proc = [entry |-> entry, pc |-> "running", exit |-> "",
                  issued |-> 0, closes |-> 0, in_flight |-> 0,
                  closing |-> 0]

\* a remote call starts: `self.client.get(...)` or `self.client.post(...)`
\* reads the property and sends on the handle.  The exporter awaits each
\* call before the next; tool calls and gathered chunk requests overlap.
ConnSend(op) ==
    /\ proc.pc = "running"
    /\ proc.issued < MaxRequests
    /\ op \in OpsOf(proc.entry)
    /\ proc.entry = "export" => proc.in_flight = 0
    /\ LET c == client(_client, handles)
       IN /\ _client' = c._client
          /\ handles' = c.handles
          /\ conn_log' = Append(conn_log,
                [op |-> op, handle |-> c._client, created |-> _client = 0,
                 overlaps |-> proc.in_flight])
          /\ proc' = [proc EXCEPT !.issued = @ + 1, !.in_flight = @ + 1]
    /\ UNCHANGED <<fetchVars, walkVars, toolVars>>

\* the answer of a remote call arrives
ConnReceive ==
    /\ proc.pc = "running"
    /\ proc.in_flight > 0
    /\ proc' = [proc EXCEPT !.in_flight = @ - 1]
    /\ UNCHANGED <<_client, handles, conn_log>>
    /\ UNCHANGED <<fetchVars, walkVars, toolVars>>

\* close() up to its await: nothing to do when `_client` is None, else
\* aclose() is awaited, which marks the handle closed at once
ConnCloseCall ==
    /\ proc.pc = "running"
    /\ proc.entry = "library"
    /\ proc.closing = 0
    /\ proc.closes < MaxCloses
    /\ conn_log' = Append(conn_log,
          [op |-> "close", handle |-> _client, created |-> FALSE,
           overlaps |-> proc.in_flight])
    /\ IF _client = 0
       THEN /\ UNCHANGED handles
            /\ proc' = [proc EXCEPT !.closes = @ + 1]
       ELSE /\ handles' = [handles EXCEPT ![_client] = "closed"]
            /\ proc' = [proc EXCEPT !.closes = @ + 1, !.closing = _client]
    /\ UNCHANGED _client
    /\ UNCHANGED <<fetchVars, walkVars, toolVars>>

\* close() after its await: `self._client = None`
ConnCloseDone ==
    /\ proc.pc = "running"
    /\ proc.closing /= 0
    /\ _client' = 0
    /\ proc' = [proc EXCEPT !.closing = 0]
    /\ UNCHANGED <<handles, conn_log>>
    /\ UNCHANGED <<fetchVars, walkVars, toolVars>>

\* the process ends: mcp.run returns or is interrupted; the exporter's main
\* returns, or prints the error and calls sys.exit(1).  Neither entry point
\* calls close() or cleanup_client.
ConnExit(how) ==
    /\ proc.pc = "running"
    /\ proc.closing = 0
    /\ proc' = [proc EXCEPT !.pc = "exited", !.exit = how]
    /\ UNCHANGED <<_client, handles, conn_log>>
    /\ UNCHANGED <<fetchVars, walkVars, toolVars>>

ConnNext ==
    \/ \E op \in RemoteOps : ConnSend(op)
    \/ ConnReceive
    \/ ConnCloseCall
    \/ ConnCloseDone
    \/ \E how \in {"normal", "error"} : ConnExit(how)

SpecConn == ConnInit /\ [][ConnNext]_vars

\* ---- properties of the handle --------------------------------------------

IsRemoteCall(e) == e.op /= "close"

OpenHandles == {h \in 1..Len(handles) : handles[h] = "open"}

\* C18: no handle exists before the first remote call, which creates it; at
\* most one handle is open at any time and `_client` is the newest one; every
\* remote call after the creation of a handle and before the next close()
\* call, of any kind and overlapping or not, uses that handle.
C18_OneHandle ==
    /\ (\A k \in 1..Len(conn_log) : ~IsRemoteCall(conn_log[k]))
          => _client = 0 /\ handles = <<>>
    /\ Cardinality(OpenHandles) <= 1
    /\ _client \in {0, Len(handles)}
    /\ \A k \in 1..Len(conn_log) :
          (IsRemoteCall(conn_log[k])
              /\ \A i \in 1..(k - 1) : ~IsRemoteCall(conn_log[i]))
          => conn_log[k].created /\ conn_log[k].handle = 1
    /\ \A i \in 1..Len(conn_log) : \A j \in (i + 1)..Len(conn_log) :
          (conn_log[i].created /\ IsRemoteCall(conn_log[j])
              /\ \A m \in (i + 1)..(j - 1) : IsRemoteCall(conn_log[m]))
          => conn_log[j].handle = conn_log[i].handle /\ ~conn_log[j].created

\* the first call created the handle, two overlapping item requests and a
\* query used it
C18_Witness ==
    /\ Len(conn_log) = 3
    /\ conn_log[1].op = "get_items" /\ conn_log[1].created
    /\ conn_log[2].op = "get_items" /\ conn_log[2].overlaps = 1
    /\ conn_log[3].op = "post_wiql"
    /\ conn_log[2].handle = 1 /\ conn_log[3].handle = 1
    /\ handles = <<"open">>

\* C19: when the server or the exporter process has ended, on the normal or
\* on the error path, every handle that was created is closed.
C19_ReleasedAtExit ==
    (proc /= <<>> /\ proc.pc = "exited"
        /\ proc.entry \in {"server", "export"})
    => \A h \in 1..Len(handles) : handles[h] = "closed"

-----------------------------------------------------------------------------
(* The field mapping of _get_work_items_batch (client.py l.151-169), applied *)
(* to answers whose records lack attributes.                               *)

TextKeys ==
    {"System.Title", "System.WorkItemType", "System.State",
     "System.CreatedDate", "System.ChangedDate", "System.Description",
     "System.Tags"}

\* the fields map of a record that has every attribute
FullFields ==
    [k \in TextKeys \cup {"System.AssignedTo"} |->
        CASE k = "System.AssignedTo" ->
               [displayName |-> "Ann", uniqueName |-> "ann@x"]
          [] k = "System.Title" -> "T"
          [] k = "System.WorkItemType" -> "Bug"
          [] k = "System.State" -> "New"
          [] k = "System.CreatedDate" -> "2024-01-01"
          [] k = "System.ChangedDate" -> "2024-01-02"
          [] k = "System.Description" -> "D"
          [] k = "System.Tags" -> "a; b"]

\* the map without one key
Without(f, key) == [k \in DOMAIN f \ {key} |-> f[k]]

\* the fields maps tried: complete, one attribute missing, an assignee
\* without display name, empty
FieldsTried ==
    {FullFields}
    \cup {Without(FullFields, k) : k \in DOMAIN FullFields}
    \cup {[FullFields EXCEPT !["System.AssignedTo"] =
               [uniqueName |-> "ann@x"]]}
    \cup {<<>>}

\* the records tried for identifier i: with a fields map, without one, and
\* without the identifier
RecordsTried(i) ==
    {[id |-> i, fields |-> f] : f \in FieldsTried}
    \cup {[id |-> i], [fields |-> FullFields]}

MapInit ==
    /\ pc = "call"
    /\ ids = <<1, 2>>
    /\ batches = <<>>
    /\ tasks = <<>>
    /\ batch_results = <<>>
    /\ work_items = <<>>
    /\ requests = <<>>
    /\ \E a \in RecordsTried(1), b \in RecordsTried(2) :
          resp_log = <<HttpResponse(200, [value |-> <<a, b>>])>>
    /\ completion = <<>>
    /\ WalkIdle
    /\ ToolIdle
    /\ ConnIdle

\* _get_work_items_batch runs on the answer
MapBatch ==
    /\ pc = "call"
    /\ LET r == _get_work_items_batch(resp_log[1])
       IN /\ pc' = IF r.raised THEN "raised" ELSE "returned"
          /\ work_items' = IF r.raised THEN <<>> ELSE r.value
    /\ requests' = Append(requests, ids)
    /\ UNCHANGED <<ids, batches, tasks, batch_results, resp_log, completion>>
    /\ UNCHANGED <<walkVars, toolVars, connVars>>

MapNext == MapBatch

SpecMap == MapInit /\ [][MapNext]_vars

\* the records of the answer
AnswerRecords == resp_log[1].data.value

FieldsOfRecord(rec) ==
    IF "fields" \in DOMAIN rec THEN rec.fields ELSE <<>>

\* the attribute of the item that comes from each text key
AttrOf(key) ==
    CASE key = "System.Title" -> "title"
      [] key = "System.WorkItemType" -> "work_item_type"
      [] key = "System.State" -> "state"
      [] key = "System.CreatedDate" -> "created_date"
      [] key = "System.ChangedDate" -> "changed_date"
      [] key = "System.Description" -> "description"
      [] key = "System.Tags" -> "tags"

\* C20: when every record of the answer has its identifier, the batch fetch
\* returns one item per record, in order, whatever attributes the records
\* lack: a text attribute is the record's value, or "" when it is missing, the
\* assignee is the display name, or None when the assignee or its display
\* name is missing.
C20_MissingAttributes ==
    (pc /= "call" /\ resp_log /= <<>>
        /\ \A k \in 1..Len(AnswerRecords) : "id" \in DOMAIN AnswerRecords[k])
    => /\ pc = "returned"
       /\ Len(work_items) = Len(AnswerRecords)
       /\ \A k \in 1..Len(AnswerRecords) :
             LET fields == FieldsOfRecord(AnswerRecords[k])
                 item == work_items[k]
             IN /\ item.id = AnswerRecords[k].id
                /\ \A key \in TextKeys :
                      item[AttrOf(key)] =
                          IF key \in DOMAIN fields THEN fields[key] ELSE ""
                /\ item.assigned_to =
                      IF "System.AssignedTo" \in DOMAIN fields
                         /\ "displayName"
                               \in DOMAIN fields["System.AssignedTo"]
                      THEN fields["System.AssignedTo"].displayName
                      ELSE None

\* the first record has no fields map, the second is complete: both are in
\* the result
C20_Witness ==
    /\ pc = "returned"
    /\ resp_log /= <<>>
    /\ "fields" \notin DOMAIN AnswerRecords[1]
    /\ "fields" \in DOMAIN AnswerRecords[2]
    /\ AnswerRecords[2].fields = FullFields
    /\ Len(work_items) = 2
    /\ work_items[1].title = "" /\ work_items[1].assigned_to = None
    /\ work_items[2].title = "T" /\ work_items[2].assigned_to = "Ann"

-----------------------------------------------------------------------------
(* The clauses of get_my_work_items and get_work_items_by_type             *)

\* C21: in get_my_work_items and get_work_items_by_type each clause is in
\* the WHERE text exactly when its own flag or value asks for it, whether or
\* not the caller gave states: the project predicate when project filtering
\* is in force, the iteration and area clauses when the settings hold a
\* default path, the two exclusions when their settings flags are on.
C21_IndependentClauses ==
    (Composing("get_my_work_items") \/ Composing("get_work_items_by_type")) =>
        LET where == WhereText(tool.wiql)
        IN /\ Contains(where, "[System.TeamProject] = '"
                              \o TargetProject(settings, request) \o "'")
                <=> EffectiveProjectFilter
           /\ Contains(where, "[System.IterationPath] UNDER '")
                <=> (OrStr(settings.default_iteration_path, "") /= "")
           /\ Contains(where, "[System.AreaPath] UNDER '")
                <=> (OrStr(settings.default_area_path, "") /= "")
           /\ Contains(where, NotClosedClause) <=> settings.exclude_closed
           /\ Contains(where, NotRemovedClause) <=> settings.exclude_removed

\* the same statement for the calls without states
C21_WithoutStates ==
    request.states = <<>> => C21_IndependentClauses

-----------------------------------------------------------------------------
(* The tool get_work_items_by_query: the caller's query text is rewritten  *)
(* and sent.                                                               *)

LowerLetters == "abcdefghijklmnopqrstuvwxyz"
UpperLetters == "ABCDEFGHIJKLMNOPQRSTUVWXYZ"

\* str.upper() of one character
UpperChar(c) ==
    LET i == IndexOf(LowerLetters, c)
    IN IF i = 0 THEN c ELSE SubSeq(UpperLetters, i, i)

\* str.upper()
RECURSIVE Upper(_)
Upper(text) ==
    IF Len(text) = 0 THEN ""
    ELSE UpperChar(SubSeq(text, 1, 1)) \o Upper(SubSeq(text, 2, Len(text)))

\* str.rstrip() of a text whose only white space is the space
RECURSIVE RStrip(_)
RStrip(text) ==
    IF Len(text) > 0 /\ SubSeq(text, Len(text), Len(text)) = " "
    THEN RStrip(SubSeq(text, 1, Len(text) - 1))
    ELSE text

\* the statements of get_work_items_by_query between `wiql = request.wiql`
\* and `print(wiql)`
RewriteQuery(st, req) ==
    LET project == OrStr(req.project, st.project)
        wiql == req.wiql
        project_filter == get_project_filter(st, project, <<TRUE>>)
        wanted == \/ req.include_project_filter = <<TRUE>>
                  \/ /\ req.include_project_filter = <<>>
                     /\ st.enable_project_filtering
    IN IF ~wanted \/ Contains(Upper(wiql), "[System.TeamProject]")
          \/ project_filter = ""
       THEN wiql
       ELSE IF Contains(Upper(wiql), "WHERE")
       THEN ReplaceFirst(wiql, "WHERE",
                         "WHERE " \o project_filter \o " AND")
       ELSE IF Contains(Upper(wiql), "ORDER BY")
       THEN ReplaceFirst(wiql, "ORDER BY",
                         "WHERE " \o project_filter \o " ORDER BY")
       ELSE RStrip(wiql) \o " WHERE " \o project_filter

\* the query texts tried: the keywords in upper, lower and mixed case, with
\* and without a WHERE part and an ORDER BY part, with and without a project
\* predicate of the caller's own, with trailing blanks
QueryTexts ==
    { "SELECT [System.Id] FROM WorkItems WHERE [System.Id] > 0 ORDER BY [System.Id]",
      "select [System.Id] from WorkItems where [System.Id] > 0 order by [System.Id]",
      "Select [System.Id] From WorkItems Where [System.Id] > 0",
      "SELECT [System.Id] FROM WorkItems ORDER BY [System.Id]",
      "select [System.Id] from WorkItems order by [System.Id]",
      "SELECT [System.Id] FROM WorkItems",
      "SELECT [System.Id] FROM WorkItems  ",
      "SELECT [System.Id] FROM WorkItems WHERE [System.TeamProject] = 'mine'",
      "SELECT [System.Id] FROM WorkItems WHERE [system.teamproject] = 'mine' ORDER BY [System.Id]" }

ByQueryRequests ==
    [wiql : QueryTexts, project : {<<>>, <<"other">>},
     include_project_filter : OptBool]

ByQueryInit ==
    /\ pc = "idle"
    /\ ids = <<>>
    /\ batches = <<>>
    /\ tasks = <<>>
    /\ batch_results = <<>>
    /\ work_items = <<>>
    /\ requests = <<>>
    /\ resp_log = <<>>
    /\ completion = <<>>
    /\ WalkIdle
    /\ ConnIdle
    /\ settings \in [project : {"proj"}, enable_project_filtering : BOOLEAN]
    /\ request \in ByQueryRequests
    /\ tool = [name |-> "get_work_items_by_query",
               run |-> "get_work_items_by_query", pc |-> "call",
               stage |-> "", wiql |-> "", ids |-> <<>>, result |-> <<>>]
    /\ http_log = <<>>

\* the tool runs up to the await of get_work_items_by_wiql
ByQueryRewrite ==
    /\ tool.pc = "call"
    /\ tool' = [tool EXCEPT !.pc = "wiql", !.stage = "query",
                            !.wiql = RewriteQuery(settings, request)]
    /\ UNCHANGED <<settings, request, http_log>>
    /\ UNCHANGED <<fetchVars, walkVars, connVars>>

\* get_work_items_by_wiql up to its second await: the query is posted
ByQuerySend ==
    /\ tool.pc = "wiql"
    /\ \E resp \in FlatWiqlResponses :
          LET data == execute_wiql(resp)
              work_item_refs == IF data.raised THEN <<>>
                                ELSE Get(data.value, "workItems", <<>>)
              key_error == \E k \in 1..Len(work_item_refs) :
                               ~Has(work_item_refs[k], "id")
          IN /\ tool' =
                  IF data.raised \/ key_error THEN Fail(tool)
                  ELSE IF work_item_refs = <<>>
                  THEN Finish(tool, settings, request, <<>>)
                  ELSE [tool EXCEPT !.pc = "items",
                            !.ids = [k \in 1..Len(work_item_refs) |->
                                        work_item_refs[k].id]]
             /\ http_log' = Append(http_log,
                    LogEntry("POST", "wit/wiql", resp, data.raised,
                             tool.wiql))
    /\ UNCHANGED <<settings, request>>
    /\ UNCHANGED <<fetchVars, walkVars, connVars>>

\* the await of get_work_items: the items are fetched and dumped
ByQueryItems ==
    /\ tool.pc = "items"
    /\ \E resp \in ItemResponses(tool.ids, ToolTypes) :
          LET r == get_work_items(tool.ids, <<resp>>)
          IN /\ tool' = IF r.raised THEN Fail(tool)
                        ELSE Finish(tool, settings, request, r.value)
             /\ http_log' = Append(http_log,
                    LogEntry("GET", "wit/workitems", resp,
                             _make_request(resp).raised, <<>>))
    /\ UNCHANGED <<settings, request>>
    /\ UNCHANGED <<fetchVars, walkVars, connVars>>

ByQueryNext ==
    \/ ByQueryRewrite
    \/ ByQuerySend
    \/ ByQueryItems

SpecByQuery == ByQueryInit /\ [][ByQueryNext]_vars

\* ---- properties -----------------------------------------------------------

\* the query of the POST of the call
QuerySent == http_log[1].query

\* the text holds a predicate on the project field, in any letter case
HasProjectPredicate(text) == Contains(Upper(text), "[SYSTEM.TEAMPROJECT]")

ByQueryPosted ==
    /\ tool /= <<>>
    /\ tool.run = "get_work_items_by_query"
    /\ Len(http_log) >= 1
    /\ http_log[1].method = "POST"

\* C22: a caller's query that already holds a [System.TeamProject] predicate
\* is sent unchanged, whatever include_project_filter and the settings flag
\* are.
C22_OwnPredicateKept ==
    (ByQueryPosted /\ Contains(request.wiql, "[System.TeamProject]"))
        => QuerySent = request.wiql

\* with project filtering not in force every query is sent unchanged
C22_UnchangedWhenOff ==
    (ByQueryPosted /\ ~EffectiveProjectFilter) => QuerySent = request.wiql

\* C23: with project filtering in force and no project predicate in the
\* caller's query, the query sent holds the equality predicate on the target
\* project after its WHERE keyword and before its ORDER BY keyword, in
\* whatever letter case the caller wrote the keywords.
C23_PredicateInWhere ==
    (ByQueryPosted /\ EffectiveProjectFilter
        /\ ~HasProjectPredicate(request.wiql))
    => LET upper == Upper(QuerySent)
           where_at == IndexOf(upper, "WHERE")
           order_at == IndexOf(upper, "ORDER BY")
           at == IndexOf(QuerySent,
                     "[System.TeamProject] = '"
                     \o TargetProject(settings, request) \o "'")
       IN /\ where_at > 0
          /\ at > where_at
          /\ order_at > 0 => at < order_at

\* the same statement for the queries whose keywords are in upper case
C23_UpperCaseKeywords ==
    (~Contains(request.wiql, "where") /\ ~Contains(request.wiql, "Where")
        /\ ~Contains(request.wiql, "order by"))
    => C23_PredicateInWhere

-----------------------------------------------------------------------------
(* The project scope of the backlog fallback queries                       *)

\* the fallback queries the call has sent to the remote service
FallbackQueries ==
    {http_log[k].query : k \in {j \in 1..Len(http_log) :
        /\ http_log[j].method = "POST"
        /\ http_log[j].sent
        /\ IsFallbackQuery(http_log[j].query)}}

\* the query holds the equality predicate on the target project
ScopedToProject(q) ==
    \E k \in 1..Len(q.where) :
        q.where[k] = "[System.TeamProject] = '"
                     \o OrStr(request.project, settings.project) \o "'"

\* C24: every fallback query a backlog call posts holds the project equality
\* predicate when project filtering is in force for the call (the per-call
\* value, else the settings flag), and none when it is not.
C24_FallbackProjectScope ==
    (tool /= <<>> /\ tool.run = "get_backlog_items") =>
        \A q \in FallbackQueries : ScopedToProject(q) <=> EffectiveProjectFilter

\* with project filtering not in force no fallback query holds the predicate
C24_NoneWhenOff ==
    (tool /= <<>> /\ tool.run = "get_backlog_items"
        /\ ~EffectiveProjectFilter) =>
        \A q \in FallbackQueries : ~ScopedToProject(q)

\* a backlog call answered through the first fallback query
C24_AnsweredByFirstFallback ==
    /\ tool /= <<>>
    /\ tool.run = "get_backlog_items"
    /\ tool.pc = "returned"
    /\ EffectiveProjectFilter
    /\ Len(http_log) = 3
    /\ http_log[2].method = "POST"
    /\ http_log[2].query = ClientFallbackQuery
    /\ http_log[3].method = "GET"
    /\ Len(tool.result) > 0
    /\ ~IsErrorList(tool.result)

-----------------------------------------------------------------------------
(* The result cap of get_work_items_by_state and                           *)
(* get_work_items_with_filters                                             *)

\* the cap in force for the request: max_results when the caller set it,
\* else settings.default_max_results
EffectiveCap ==
    IF request.max_results /= <<>> THEN request.max_results[1]
    ELSE settings.default_max_results

\* a call of one of the two tools that returned items, not an error record
CappedCallReturned ==
    /\ tool /= <<>>
    /\ tool.run \in {"get_work_items_by_state", "get_work_items_with_filters"}
    /\ tool.pc = "returned"
    /\ ~IsErrorList(tool.result)

\* the returned records are the first ones of an answer to the item request
IsPrefixOfAnswer ==
    \/ tool.result = <<>>
    \/ \E resp \in ItemResponses(tool.ids, ToolTypes) :
          LET r == get_work_items(tool.ids, <<resp>>)
          IN /\ ~r.raised
             /\ Len(tool.result) <= Len(r.value)
             /\ tool.result = SubSeq(r.value, 1, Len(tool.result))

\* C25: a returned call of get_work_items_by_state or
\* get_work_items_with_filters holds at most as many items as the cap in
\* force (none when the cap is 0 or negative), and they are the first items
\* of the query result, in its order.
C25_ResultCap ==
    CappedCallReturned =>
        /\ Len(tool.result) <= (IF EffectiveCap > 0 THEN EffectiveCap ELSE 0)
        /\ IsPrefixOfAnswer

\* the same statement for the calls whose max_results is unset or positive
C25_PositiveCap ==
    (request /= <<>> /\ (request.max_results = <<>> \/ EffectiveCap > 0))
        => C25_ResultCap

-----------------------------------------------------------------------------
(* The children get_epic_hierarchy places in the tree                      *)

\* `item` is a child of type `type` of `parent`: it has that type tag and
\* the service holds a forward-hierarchy link from `parent` to it
IsLinkedChild(item, parent, type) ==
    /\ item.work_item_type = type
    /\ item.id /= parent
    /\ parent \in DOMAIN backend.links
    /\ \E k \in 1..Len(backend.links[parent]) :
          backend.links[parent][k] = item.id

\* C26: in the hierarchy returned, every item of a child sequence has the
\* type tag looked up and is the target of a forward-hierarchy link from the
\* parent it stands under; rows without source or relation type, such as the
\* row for the parent itself, give no child.
C26_ChildrenAreLinked ==
    (walk /= <<>> /\ walk.pc = "done") =>
        LET h == walk.hierarchy IN
        \A i \in 1..Len(h.features) :
            LET f == h.features[i] IN
            /\ IsLinkedChild(f.work_item, h.epic.id, "Feature")
            /\ \A j \in 1..Len(f.user_stories) :
                  LET us == f.user_stories[j] IN
                  /\ IsLinkedChild(us.work_item, f.work_item.id, "User Story")
                  /\ \A k \in 1..Len(us.tasks) :
                        IsLinkedChild(us.tasks[k], us.work_item.id, "Task")
                  /\ \A k \in 1..Len(us.bugs) :
                        IsLinkedChild(us.bugs[k], us.work_item.id, "Bug")

\* the same statement when the service answers no row for the parent itself
C26_NoSelfRows ==
    (backend /= <<>> /\ ~backend.self_rows) => C26_ChildrenAreLinked

-----------------------------------------------------------------------------
(* The clause order of get_work_items_by_state                             *)

\* the fields the clauses test, in the fixed sequence of the query builder
ClauseFields ==
    <<"[System.State]", "[System.WorkItemType]", "[System.AssignedTo]",
      "[System.IterationPath]", "[System.AreaPath]", "[System.TeamProject]">>

\* the place of the last clause on the field, 0 when there is none
LastIndexOf(text, sub) ==
    LET at == {i \in 1..(Len(text) - Len(sub) + 1) :
                  SubSeq(text, i, i + Len(sub) - 1) = sub}
    IN IF at = {} THEN 0 ELSE CHOOSE i \in at : \A j \in at : j <= i

\* the clauses of the WHERE text stand in the fixed sequence
InFixedSequence(where) ==
    \A a, b \in 1..Len(ClauseFields) :
        (a < b /\ Contains(where, ClauseFields[a])
               /\ Contains(where, ClauseFields[b]))
        => LastIndexOf(where, ClauseFields[a]) < IndexOf(where, ClauseFields[b])

\* C27: the clauses of every get_work_items_by_state query stand in the
\* order state, type, assignee, iteration path, area path, project, for
\* every combination of request fields and settings.
C27_ByStateClauseOrder ==
    Composing("get_work_items_by_state") =>
        InFixedSequence(WhereText(tool.wiql))

\* the same statement for the queries without a project predicate or
\* without a default iteration and area path
C27_WithoutPathOrProject ==
    (Composing("get_work_items_by_state")
        /\ \/ ~EffectiveProjectFilter
           \/ /\ OrStr(settings.default_iteration_path, "") = ""
              /\ OrStr(settings.default_area_path, "") = "")
    => InFixedSequence(WhereText(tool.wiql))

-----------------------------------------------------------------------------
(* The WHERE text of get_work_items_with_filters is never empty            *)

\* the types the type clause is over: the request's, else the default list
TypesInForce ==
    IF request.work_item_types /= <<>> THEN request.work_item_types
    ELSE settings.default_work_item_types_list

\* C28: the WHERE text of every get_work_items_with_filters query holds a
\* type clause, over the request's types when given, else over the default
\* type list, which is never empty; the text is never empty and never the
\* stub `1 = 1`.
C28_TypeClauseAlways ==
    Composing("get_work_items_with_filters") =>
        LET where == WhereText(tool.wiql) IN
        /\ Len(TypesInForce) >= 1
        /\ tool.conditions /= <<>>
        /\ where /= ""
        /\ ~Contains(where, "1 = 1")
        /\ \A k \in 1..Len(TypesInForce) :
              Contains(where, "[System.WorkItemType] = '"
                              \o TypesInForce[k] \o "'")

\* a request without any field under settings that switch every default off
\* and hold an empty default_work_item_types: the type clause is the only
\* clause
C28_Witness ==
    /\ Composing("get_work_items_with_filters")
    /\ request.states = <<>> /\ request.work_item_types = <<>>
    /\ request.assigned_to = <<>> /\ request.iteration_path = <<>>
    /\ request.area_path = <<>> /\ request.exclude_closed = <<>>
    /\ request.exclude_removed = <<>>
    /\ request.include_project_filter = <<>>
    /\ settings.default_work_item_types_list = <<"">>
    /\ Len(tool.conditions) = 1
    /\ WhereText(tool.wiql) = "([System.WorkItemType] = '')"

-----------------------------------------------------------------------------
(* Remote calls that overlap a close() call                                *)

\* C29: no remote call is sent on a handle whose release has begun: a call
\* that comes after a close() call in the order of events, whether close()
\* is still suspended in aclose() or has completed, does not use the handle
\* that close() call released.
C29_NoSendOnReleasedHandle ==
    \A i \in 1..Len(conn_log) : \A j \in (i + 1)..Len(conn_log) :
        (conn_log[i].op = "close" /\ conn_log[i].handle /= 0
            /\ IsRemoteCall(conn_log[j]))
        => conn_log[j].handle /= conn_log[i].handle

=============================================================================
